---- MODULE Spec2Model ----
(***************************************************************************)
(* hob: the build pipeline engine.                                         *)
(*                                                                         *)
(* Spec      - Engine::build_recipe: the stage loop, the hook registry,    *)
(*             and Player::play with its default bodies.                   *)
(* SpecFetch - Fetcher::fetch against the cache directory and the HTTP     *)
(*             server, one fetch call at a time.                           *)
(* SpecEngineFetch, SpecExtract, SpecElf, SpecCollect, SpecStrip, SpecPin, *)
(* SpecSplit - the default bodies and the hooks, each on its own.          *)
(* SpecParse - the parsers of a KDL document, the traversal and main.      *)
(* SpecWalk  - FileWalker and a caller of next.                            *)
(***************************************************************************)
EXTENDS Integers, Sequences, FiniteSets, TLC

(***************************************************************************)
(* Bounds of the model.                                                    *)
(***************************************************************************)
MaxPlaybookLen == 3
MaxSides == 2
MaxArtifacts == 2
MaxBodyLen == 2
MaxFiles == 3

(***************************************************************************)
(* definition/actions/mod.rs: Stage.                                       *)
(***************************************************************************)
\* The enum in declaration order; #[derive(Ord)] compares by this order.
Stage == <<"Fetch", "Prepare", "Extract", "Configure", "Build", "Install", "Split", "Package">>

Stages == {Stage[i] : i \in 1..Len(Stage)}

\* The enum's declaration order taken as the iteration order.
stages_declared == Stage

\* Stage::stages(): the iteration order of the driver.
stages == <<"Prepare", "Fetch", "Extract", "Configure", "Build", "Install", "Split", "Package">>

\* Position of a stage in the enum declaration (derive(Ord, PartialOrd)).
StageOrd(s) == CHOOSE i \in 1..Len(Stage) : Stage[i] = s

\* Stage::from_str: the stages a document can give a playbook for.
PlaybookStages == {"Fetch", "Prepare", "Extract", "Configure", "Build", "Install"}

(***************************************************************************)
(* engine/hooks: the registry and its sort.                                *)
(***************************************************************************)
\* enum HookTrigger in declaration order.
HookTrigger == <<"Before", "After">>

TriggerOrd(t) == CHOOSE i \in 1..Len(HookTrigger) : HookTrigger[i] = t

\* The Hook impls: PRIORITY, TRIGGER, STAGE; fallible is whether run() has
\* any path returning Err.
CollectElf == [name |-> "CollectElf", prio |-> 0, trigger |-> "After", stage |-> "Install", fallible |-> TRUE]
StripBinaries == [name |-> "StripBinaries", prio |-> 100, trigger |-> "After", stage |-> "Install", fallible |-> TRUE]
PinTimestamps == [name |-> "PinTimestamps", prio |-> 100, trigger |-> "Before", stage |-> "Package", fallible |-> TRUE]
FixPermissions == [name |-> "FixPermissions", prio |-> 0, trigger |-> "Before", stage |-> "Package", fallible |-> FALSE]

\* const HOOKS, in registration order.
HOOKS == <<CollectElf, StripBinaries, PinTimestamps, FixPermissions>>

\* HookVTable::when
when(hook) == <<hook.stage, hook.trigger>>

\* The sort key (v.when(), v.prio()) and its derived lexicographic order.
KeyLess(a, b) ==
    \/ StageOrd(a.stage) < StageOrd(b.stage)
    \/ /\ StageOrd(a.stage) = StageOrd(b.stage)
       /\ TriggerOrd(a.trigger) < TriggerOrd(b.trigger)
    \/ /\ StageOrd(a.stage) = StageOrd(b.stage)
       /\ TriggerOrd(a.trigger) = TriggerOrd(b.trigger)
       /\ a.prio < b.prio

RECURSIVE InsertByKey(_, _)
\* One insertion of a stable sort: h goes after every element not greater.
InsertByKey(s, h) ==
    IF s = <<>> THEN <<h>>
    ELSE IF KeyLess(h, Head(s)) THEN <<h>> \o s
    ELSE <<Head(s)>> \o InsertByKey(Tail(s), h)

RECURSIVE SortByKey(_)
\* slice::sort_by_key: a stable sort.
SortByKey(s) ==
    IF s = <<>> THEN <<>>
    ELSE InsertByKey(SortByKey(SubSeq(s, 1, Len(s) - 1)), s[Len(s)])

\* A registry left in registration order.
get_unsorted_hooks == HOOKS

\* get_sorted_hooks(), the value of SORTED_HOOKS.
get_sorted_hooks == SortByKey(HOOKS)

SORTED_HOOKS == get_sorted_hooks

(***************************************************************************)
(* definition/actions/mod.rs: Action; engine/build_style: the table.       *)
(***************************************************************************)
\* The action kinds a playbook of the model is made of.
PlaybookActions == {"Default", "Cc"}

Range(q) == {q[i] : i \in DOMAIN q}

RECURSIVE SeqsUpTo(_, _)
SeqsUpTo(S, n) ==
    IF n = 0 THEN {<<>>}
    ELSE LET shorter == SeqsUpTo(S, n - 1)
         IN shorter \cup {Append(q, x) : q \in {r \in shorter : Len(r) = n - 1}, x \in S}

Playbooks == SeqsUpTo(PlaybookActions, MaxPlaybookLen)

\* const DEFAULT_ACTIONS
DEFAULT_ACTIONS == <<"Default">>

BuildStyleTypes == {"Noop", "GnuConfigure", "Configure"}

\* const TYPES, as a function of the style tag.
TYPES ==
    [t \in BuildStyleTypes |->
        IF t = "Noop"
        THEN [configure |-> <<>>, build |-> <<>>, install |-> <<>>]
        ELSE [configure |-> <<"Configure">>, build |-> <<"Make">>, install |-> <<"MakeInstall">>]]

get_build_style(style) == TYPES[style]

\* The install list taken for every stage.
build_stage_install(style, stage) == get_build_style(style).install

\* The match of play_build_stage's default body on state.stage.
build_stage_actions(style, stage) ==
    CASE stage = "Configure" -> get_build_style(style).configure
      [] stage = "Build" -> get_build_style(style).build
      [] stage = "Install" -> get_build_style(style).install
      [] OTHER -> <<"bail">>

(***************************************************************************)
(* State.                                                                  *)
(***************************************************************************)
VARIABLES
    recipe,        \* the Recipe: style tag, number of sides, number of artifacts
    playbook,      \* recipe.playbooks.get(&state.stage): NoPlaybook or the actions
    state,         \* BuildState: build_time, stage, artifacts, collected (elf_headers,
                   \* archives); state.recipe is the variable recipe
    stage_iter,    \* position of build_recipe's loop in Stage::stages()
    pc,            \* where build_recipe is: loop, before, body, after, done, failed
    hook_iter,     \* position of run_hooks' loop in SORTED_HOOKS
    player,        \* the running Player::play call
    pkg_iter,      \* position of the Package body in [recipe, side 1, side 2, ..]
    packaged,      \* history: the packager's invocations, with what they returned
    result,        \* what build_recipe returned
    fs,            \* kinds of effects made on the file system so far
    log,           \* history: hooks run and stage bodies begun and completed
    hooks_run,     \* history: hooks run by the current run_hooks call
    played,        \* history: what the current play call executed
    failed_step,   \* history: the first step that returned an error
    cache,         \* the cache directory: path -> content or NoFile
    fetches,       \* the fetch calls: artifact, position, locals, result
    server,        \* history: number of HTTP requests the server has seen
    errors,        \* the errors of the EngineError that Engine::fetch returned
    extractor,     \* Engine::extract and Extractor::extract: position and locals
    extracted,     \* history: extractions begun, archives unpacked, extractions ended
    reader,        \* the bytes of the input that ElfHeader::parse is called on
    parsed,        \* what ElfHeader::parse returned
    dest,          \* the entries under the recipe's dest directory, as walked
    walker,        \* CollectElf::run: position of the walk, the buffer, the result
    strip,         \* StripBinaries::run: position, binaries, libraries, result
    apk,           \* Apk::build_package: position and result
    commands,      \* history: the subprocesses that ran, with their exit status
    tree,          \* the dest directories: path -> kind, link target, atime, mtime
    pin,           \* PinTimestamps::run: position, the walker's stack, tv, result
    split,         \* Engine::split_claims: position, the walk of the glob, result
    document,      \* the KDL document: its nodes, with entries and children
    parser,        \* the parsers and main: position, recipes, errors, what was built
    files          \* a FileWalker and its caller: mode, stack, the entries yielded

\* The variables of the units checked on their own; build_recipe's steps and
\* the steps of one fetch call leave them as they are.
kvars == <<pkg_iter, packaged>>
xvars == <<extractor, extracted>>
evars == <<reader, parsed>>
cvars == <<dest, walker>>
svars == <<strip, apk, commands>>
pvars == <<tree, pin, split>>
gvars == <<document, parser>>
wvars == <<pvars, gvars, files>>
uvars == <<errors, xvars, evars, cvars, svars, wvars>>
dvars == <<recipe, playbook, state, stage_iter, pc, hook_iter, player, kvars,
           result, fs, log, hooks_run, played, failed_step, uvars>>
fvars == <<cache, fetches, server, uvars>>
vars == <<dvars, fvars>>

\* A SystemTime and the time stamps of a file: seconds since the epoch
\* (negative before it) and nanoseconds within the second.
Time(secs, nanos) == [secs |-> secs, nanos |-> nanos]

\* A Result: tag is running, Ok or Err; err names the step that failed.
Running == [tag |-> "running", err |-> "none"]
Ok == [tag |-> "Ok", err |-> "none"]
Err(e) == [tag |-> "Err", err |-> e]

NoPlaybook == [present |-> FALSE, actions |-> <<>>]

\* What the playbooks map of a parsed recipe can hold for a stage. The map
\* never changes during a build and play reads only the entry of state.stage,
\* so the entry is drawn when the stage begins.
PlaybookChoices(s) ==
    IF s \in PlaybookStages
    THEN {NoPlaybook} \cup {[present |-> TRUE, actions |-> a] : a \in Playbooks}
    ELSE {NoPlaybook}

\* No command has been spawned by execute_action.
NoExit == [ran |-> FALSE, status |-> 0, action |-> "none"]

PlayerIdle == [pc |-> "idle", pb |-> <<>>, pb_iter |-> 1, found_default |-> FALSE,
               default_iter |-> 1, ret |-> Running, value |-> FALSE, exit |-> NoExit]

\* ElfHeader::parse has not returned.
NotParsed == [tag |-> "running", some |-> FALSE, object_type |-> 0, machine |-> 0,
              class |-> 0, byte_order |-> 0]

\* StripBinaries::run has not been called.
StripNotRun == [pc |-> "idle", binaries |-> {}, libraries |-> {}, result |-> Running]

\* Apk::build_package has not been called.
ApkNotRun == [pc |-> "idle", result |-> Running]

\* CollectElf::run has not been called: let mut buffer: [u8; 9] = [0; 9]
WalkerIdle == [pc |-> "idle", iter |-> 1, buffer |-> [i \in 1..9 |-> 0], result |-> Running]

\* Engine::extract is not running.
ExtractorIdle == [pc |-> "idle", iter |-> 1, arch |-> "none", compr |-> "none",
                  result |-> Running]

\* PinTimestamps::run has not been called.
PinNotRun == [pc |-> "idle", pushed |-> 0, stack |-> <<>>,
              tv |-> [tv_sec |-> 0, tv_usec |-> 0], result |-> Running]

\* Engine::split_claims has not been called.
SplitNotRun == [pc |-> "idle", side |-> 1, claim |-> 1, todo |-> {}, skipped |-> {},
                result |-> Running]

\* The units that are not under check: nothing has been called.
ExtractIdle == extractor = ExtractorIdle /\ extracted = <<>>
ElfIdle == reader = <<>> /\ parsed = NotParsed
CollectIdle == dest = <<>> /\ walker = WalkerIdle
StripIdle == strip = StripNotRun /\ apk = ApkNotRun /\ commands = <<>>
PinIdle == tree = <<>> /\ pin = PinNotRun /\ split = SplitNotRun

ParseNotRun ==
    [pc |-> "idle", ok |-> FALSE, recipes |-> <<>>, errors |-> <<>>, parsed |-> <<>>,
     entered |-> <<>>, handed |-> <<>>, command |-> <<>>]

ParseIdle == document = <<>> /\ parser = ParseNotRun

\* No FileWalker has been made.
FilesNotRun ==
    [pc |-> "idle", omit_directories |-> FALSE, roots |-> <<>>, stack |-> <<>>,
     yielded |-> <<>>, result |-> Running]

WalkIdle == files = FilesNotRun

\* Every unit but the named one is idle.
IdleBut(unit) ==
    /\ IF unit = "extract" THEN TRUE ELSE ExtractIdle
    /\ IF unit = "elf" THEN TRUE ELSE ElfIdle
    /\ IF unit = "collect" THEN TRUE ELSE CollectIdle
    /\ IF unit = "strip" THEN TRUE ELSE StripIdle
    /\ IF unit \in {"pin", "walk"} THEN TRUE ELSE PinIdle
    /\ IF unit = "parse" THEN TRUE ELSE ParseIdle
    /\ IF unit = "walk" THEN TRUE ELSE WalkIdle

UnitsIdle ==
    /\ errors = <<>>
    /\ IdleBut("none")

\* The engine outside of the unit under check: no playbook, player, history,
\* cache or fetch takes part.
EngineIdle ==
    /\ playbook = NoPlaybook
    /\ stage_iter = 1
    /\ hook_iter = 1
    /\ player = PlayerIdle
    /\ pkg_iter = 0
    /\ packaged = <<>>
    /\ result = Running
    /\ fs = {}
    /\ log = <<>>
    /\ hooks_run = <<>>
    /\ played = <<>>
    /\ failed_step = "none"
    /\ cache = <<>>
    /\ fetches = <<>>
    /\ server = 0
    /\ errors = <<>>

\* What the driver prints as it goes: "running hook", "running action".
Event(kind, stage, name, trigger) == [ev |-> kind, stage |-> stage, name |-> name, trigger |-> trigger]
\* A hook ran: the hook, with the stage and trigger it is registered for.
HookEvent(h) == Event("hook", h.stage, h.name, h.trigger)
BodyStart(s) == Event("body_start", s, "", "")
BodyEnd(s) == Event("body_end", s, "", "")

\* What play prints as it goes: "action {:?}" for each playbook entry.
Played(kind, idx, action) == [ev |-> kind, idx |-> idx, action |-> action]

(***************************************************************************)
(* engine/mod.rs: Engine::build_recipe and Engine::run_hooks.              *)
(***************************************************************************)
\* SystemTime::now() as build_recipe is entered.
Now == Time(1, 2500)

\* let mut state = BuildState { build_time: SystemTime::now(), recipe,
\* stage: Stage::Prepare, artifacts: vec![], elf_headers: Default::default(),
\* archives: vec![] }
Init ==
    /\ recipe \in [style : BuildStyleTypes, sides : 0..MaxSides, artifacts : 0..MaxArtifacts]
    /\ playbook = NoPlaybook
    /\ state = [build_time |-> Now, stage |-> "Prepare", artifacts |-> <<>>,
                collected |-> FALSE]
    /\ stage_iter = 1
    /\ pc = "loop"
    /\ hook_iter = 1
    /\ player = PlayerIdle
    /\ pkg_iter = 0
    /\ packaged = <<>>
    /\ result = Running
    /\ fs = {}
    /\ log = <<>>
    /\ hooks_run = <<>>
    /\ played = <<>>
    /\ failed_step = "none"
    /\ cache = <<>>
    /\ fetches = <<>>
    /\ server = 0
    /\ UnitsIdle

\* The ? operator: an Err returns from build_recipe, Ok goes on.
TryIgnore(ok, next) == next

Try(ok, next) == IF ok THEN next ELSE "failed"

\* What a step that returned ok or an error leaves in pc, result, failed_step.
Step(ok, next, what) ==
    /\ pc' = Try(ok, next)
    /\ result' = IF pc' = "failed" THEN Err(what) ELSE result
    /\ failed_step' = IF ~ok /\ failed_step = "none" THEN what ELSE failed_step

\* The trigger run_hooks is called with before and after the stage body.
PhaseTriggerSwapped(phase) == IF phase = "before" THEN "After" ELSE "Before"

PhaseTrigger(phase) == IF phase = "before" THEN "Before" ELSE "After"

\* A BuildState made anew for the stage.
new_state(st, stage) ==
    [build_time |-> st.build_time, stage |-> stage, artifacts |-> <<>>, collected |-> FALSE]

\* state.stage = stage
set_stage(st, stage) == [st EXCEPT !.stage = stage]

\* for stage in Stage::stages() { state.stage = stage; ...
StageBegin ==
    /\ pc = "loop"
    /\ stage_iter <= Len(stages)
    /\ state' = set_stage(state, stages[stage_iter])
    /\ playbook' \in PlaybookChoices(stages[stage_iter])
    /\ pc' = "before"
    /\ hook_iter' = 1
    /\ hooks_run' = <<>>
    /\ played' = <<>>
    /\ player' = PlayerIdle
    /\ pkg_iter' = 0
    /\ packaged' = <<>>
    /\ UNCHANGED <<recipe, stage_iter, result, fs, log, failed_step, fvars>>

\* ... } Ok(())
Finish ==
    /\ pc = "loop"
    /\ stage_iter > Len(stages)
    /\ pc' = "done"
    /\ result' = Ok
    /\ UNCHANGED <<recipe, playbook, state, stage_iter, hook_iter, player, kvars,
                   fs, log, hooks_run, played, failed_step, fvars>>

\* What a hook that returned Ok did to the file system.
HookEffects(h) ==
    CASE h.name = "StripBinaries" -> {"stripped"}
      [] h.name = "PinTimestamps" -> {"timestamps"}
      [] OTHER -> {}

\* run_hooks: a hook whose when() is not (stage, trigger) is passed over.
HookSkip ==
    /\ pc \in {"before", "after"}
    /\ hook_iter <= Len(SORTED_HOOKS)
    /\ when(SORTED_HOOKS[hook_iter]) # <<state.stage, PhaseTrigger(pc)>>
    /\ hook_iter' = hook_iter + 1
    /\ UNCHANGED <<recipe, playbook, state, stage_iter, pc, player, kvars, result,
                   fs, log, hooks_run, played, failed_step, fvars>>

\* run_hooks: hook.trigger(state, self).await?
HookRun ==
    /\ pc \in {"before", "after"}
    /\ hook_iter <= Len(SORTED_HOOKS)
    /\ LET h == SORTED_HOOKS[hook_iter] IN
       /\ when(h) = <<state.stage, PhaseTrigger(pc)>>
       /\ \E ok \in (IF h.fallible THEN BOOLEAN ELSE {TRUE}) :
            /\ Step(ok, pc, "hook")
            /\ IF ok
               THEN /\ hook_iter' = hook_iter + 1
                    /\ hooks_run' = Append(hooks_run, h.name)
                    /\ log' = Append(log, HookEvent(h))
                    /\ fs' = fs \cup HookEffects(h)
                    /\ state' = IF h.name = "CollectElf"
                                THEN [state EXCEPT !.collected = TRUE]
                                ELSE state
               ELSE UNCHANGED <<hook_iter, hooks_run, log, fs, state>>
    /\ UNCHANGED <<recipe, playbook, stage_iter, player, kvars, played, fvars>>

\* run_hooks returned Ok(()): on to the stage body, or to the next stage.
HooksDone ==
    /\ pc \in {"before", "after"}
    /\ hook_iter > Len(SORTED_HOOKS)
    /\ IF pc = "before"
       THEN /\ pc' = "body"
            /\ log' = Append(log, BodyStart(state.stage))
            /\ UNCHANGED stage_iter
       ELSE /\ pc' = "loop"
            /\ stage_iter' = stage_iter + 1
            /\ UNCHANGED log
    /\ UNCHANGED <<recipe, playbook, state, hook_iter, player, kvars, result,
                   fs, hooks_run, played, failed_step, fvars>>

\* The stage body returned: Ok goes on to the After hooks.
BodyReturns(ok, what) ==
    /\ Step(ok, "after", what)
    /\ IF ok
       THEN /\ log' = Append(log, BodyEnd(state.stage))
            /\ hook_iter' = 1
            /\ hooks_run' = <<>>
       ELSE UNCHANGED <<log, hook_iter, hooks_run>>

\* Stage::Prepare => self.prepare_engine().await?
BodyPrepare ==
    /\ pc = "body"
    /\ state.stage = "Prepare"
    /\ \E ok \in BOOLEAN :
         /\ BodyReturns(ok, "prepare_engine")
         /\ fs' = IF ok THEN fs \cup {"cache_dir"} ELSE fs
    /\ UNCHANGED <<recipe, playbook, state, stage_iter, player, kvars, played, fvars>>

\* Stage::Split => self.split_claims(recipe).await?  (no side: nothing to fail)
BodySplit ==
    /\ pc = "body"
    /\ state.stage = "Split"
    /\ \E ok \in (IF recipe.sides > 0 THEN BOOLEAN ELSE {TRUE}) :
         /\ BodyReturns(ok, "split_claims")
         /\ fs' = IF ok /\ recipe.sides > 0 THEN fs \cup {"side_dest"} ELSE fs
    /\ UNCHANGED <<recipe, playbook, state, stage_iter, player, kvars, played, fvars>>

\* The sides taken from the last to the first.
package_context_reversed(iter, sides) ==
    IF iter = 0 THEN [kind |-> "Recipe", side |-> 0]
    ELSE [kind |-> "Side", side |-> sides + 1 - iter]

\* Context::Recipe(recipe), then Context::Side(recipe, side) for side in
\* &recipe.sides
package_context(iter, sides) ==
    IF iter = 0 THEN [kind |-> "Recipe", side |-> 0]
    ELSE [kind |-> "Side", side |-> iter]

\* One call of self.package(..): the context and whether it returned Ok.
Invocation(context, ok) == [context |-> context, ok |-> ok]

\* Stage::Package => package(Recipe), then package(Side) for each side.
BodyPackage ==
    /\ pc = "body"
    /\ state.stage = "Package"
    /\ pkg_iter <= recipe.sides
    /\ \E ok \in BOOLEAN :
         /\ Step(ok, "body", "build_package")
         /\ packaged' = Append(packaged, Invocation(package_context(pkg_iter, recipe.sides), ok))
         /\ IF ok
            THEN /\ pkg_iter' = pkg_iter + 1
                 /\ fs' = fs \cup {"packages"}
            ELSE UNCHANGED <<pkg_iter, fs>>
    /\ UNCHANGED <<recipe, playbook, state, stage_iter, hook_iter, player, log,
                   hooks_run, played, fvars>>

BodyPackageDone ==
    /\ pc = "body"
    /\ state.stage = "Package"
    /\ pkg_iter > recipe.sides
    /\ BodyReturns(TRUE, "build_package")
    /\ UNCHANGED <<recipe, playbook, state, stage_iter, player, kvars, fs, played, fvars>>

(***************************************************************************)
(* engine/player.rs: Player::play, play_build_stage, execute_action.       *)
(***************************************************************************)
PlayStages == {"Fetch", "Extract", "Configure", "Build", "Install"}

\* An absent playbook read as the empty list.
lookup_playbook_empty(pb) == IF pb.present THEN pb.actions ELSE <<>>

\* state.recipe.playbooks.get(&state.stage).map_or(DEFAULT_ACTIONS, |x| &x.actions)
lookup_playbook(pb) == IF pb.present THEN pb.actions ELSE DEFAULT_ACTIONS

\* A second Default passed over like any handled action.
second_default_skip == "skip"

\* Action::Default in the loop after the default body: bail!(".default called twice")
second_default == "bail"

\* play reporting a Default whether or not one was found.
play_returns_true(found_default) == TRUE

\* Ok(found_default)
play_returns(found_default) == found_default

\* play(..) is entered: the playbook is looked up, the iterator created.
PlayBegin ==
    /\ pc = "body"
    /\ state.stage \in PlayStages
    /\ player.pc = "idle"
    /\ player' = [PlayerIdle EXCEPT !.pc = "first", !.pb = lookup_playbook(playbook)]
    /\ UNCHANGED <<recipe, playbook, state, stage_iter, pc, hook_iter, kvars, result,
                   fs, log, hooks_run, played, failed_step, fvars>>

\* The actions of execute_action that spawn a command and wait for it.
CommandActions == {"Cc", "Make", "MakeInstall", "Configure"}

\* The exit status of a spawned command: zero or not.
ExitStatus == {0, 1}

\* What cmd.spawn()? and proc.wait().await? can give: the command did not
\* start, or it ran and exited with a status.
CommandOutcomes == {o \in [ran : BOOLEAN, status : ExitStatus] : o.ran \/ o.status = 0}

\* The exit status left unread.
command_spawned(outcome) == outcome.ran

\* let ec = proc.wait().await?; if !ec.success() { bail!("... failed"); }
command_ok(outcome) == outcome.ran /\ outcome.status = 0

\* What the command of the action left behind it.
Exit(outcome, action) == [ran |-> outcome.ran, status |-> outcome.status, action |-> action]

\* execute_action(..).await? on the playbook entry under the iterator.
ExecuteAction ==
    /\ \E outcome \in CommandOutcomes :
         LET action == player.pb[player.pb_iter]
             ok == command_ok(outcome)
         IN
         /\ Step(ok, pc, "execute_action")
         /\ IF ok
            THEN /\ player' = [player EXCEPT !.pb_iter = @ + 1, !.exit = Exit(outcome, action)]
                 /\ played' = Append(played, Played("action", player.pb_iter, action))
                 /\ fs' = fs \cup {"action_effects"}
            ELSE /\ player' = [player EXCEPT !.ret = Err("execute_action"),
                                             !.exit = Exit(outcome, action)]
                 /\ UNCHANGED <<played, fs>>

\* The first while loop: actions up to the first Default.
PlayFirst ==
    /\ pc = "body"
    /\ player.pc = "first"
    /\ IF player.pb_iter > Len(player.pb)
       THEN /\ player' = [player EXCEPT !.pc = "returned", !.ret = Ok,
                                        !.value = play_returns(player.found_default)]
            /\ UNCHANGED <<pc, result, failed_step, played, fs>>
       ELSE IF player.pb[player.pb_iter] = "Default"
       THEN /\ player' = [player EXCEPT !.pb_iter = @ + 1, !.found_default = TRUE,
                                        !.pc = "default", !.default_iter = 1]
            /\ played' = Append(played, Played("default_start", player.pb_iter, "Default"))
            /\ UNCHANGED <<pc, result, failed_step, fs>>
       ELSE ExecuteAction
    /\ UNCHANGED <<recipe, playbook, state, stage_iter, hook_iter, kvars, log,
                   hooks_run, fvars>>

\* The default body returned Ok: play goes on with the second loop.
DefaultReturns(ok, what) ==
    /\ Step(ok, pc, what)
    /\ IF ok
       THEN /\ player' = [player EXCEPT !.pc = "second"]
            /\ played' = Append(played, Played("default_end", 0, "Default"))
       ELSE /\ player' = [player EXCEPT !.ret = Err(what)]
            /\ UNCHANGED played

\* Engine::fetch as the default body: every artifact fetched, or an EngineError.
DefaultFetch ==
    /\ pc = "body"
    /\ player.pc = "default"
    /\ state.stage = "Fetch"
    /\ \E ok \in (IF recipe.artifacts > 0 THEN BOOLEAN ELSE {TRUE}) :
         /\ DefaultReturns(ok, "fetch")
         /\ state' = IF ok THEN [state EXCEPT !.artifacts = [i \in 1..recipe.artifacts |-> i]]
                     ELSE state
         /\ fs' = IF ok /\ recipe.artifacts > 0 THEN fs \cup {"cache_files"} ELSE fs
    /\ UNCHANGED <<recipe, playbook, stage_iter, hook_iter, kvars, log, hooks_run, fvars>>

\* The artifacts of the recipe, fetched or not.
recipe_artifacts(st, rcp) == [i \in 1..rcp.artifacts |-> i]

\* for item in &state.artifacts
extract_items(st, rcp) == st.artifacts

\* Engine::extract as the default body: each of state.artifacts extracted.
DefaultExtract ==
    /\ pc = "body"
    /\ player.pc = "default"
    /\ state.stage = "Extract"
    /\ \E ok \in (IF Len(extract_items(state, recipe)) > 0 THEN BOOLEAN ELSE {TRUE}) :
         /\ DefaultReturns(ok, "extract")
         /\ fs' = IF ok /\ Len(extract_items(state, recipe)) > 0
                  THEN fs \cup {"source_tree"} ELSE fs
    /\ UNCHANGED <<recipe, playbook, state, stage_iter, hook_iter, kvars, log,
                   hooks_run, fvars>>

\* play_build_stage's default body: the build style's actions for the stage.
DefaultBuild ==
    /\ pc = "body"
    /\ player.pc = "default"
    /\ state.stage \in {"Configure", "Build", "Install"}
    /\ LET actions == build_stage_actions(recipe.style, state.stage) IN
       IF player.default_iter > Len(actions)
       THEN /\ DefaultReturns(TRUE, "execute_action")
            /\ UNCHANGED fs
       ELSE \E outcome \in CommandOutcomes :
              LET action == actions[player.default_iter]
                  ok == command_ok(outcome)
              IN
              /\ Step(ok, pc, "execute_action")
              /\ IF ok
                 THEN /\ player' = [player EXCEPT !.default_iter = @ + 1,
                                                  !.exit = Exit(outcome, action)]
                      /\ played' = Append(played, Played("style_action", player.default_iter,
                                                         action))
                      /\ fs' = fs \cup {"action_effects"}
                 ELSE /\ player' = [player EXCEPT !.ret = Err("execute_action"),
                                                  !.exit = Exit(outcome, action)]
                      /\ UNCHANGED <<played, fs>>
    /\ UNCHANGED <<recipe, playbook, state, stage_iter, hook_iter, kvars, log,
                   hooks_run, fvars>>

\* The second while loop: the actions after the Default.
PlaySecond ==
    /\ pc = "body"
    /\ player.pc = "second"
    /\ IF player.pb_iter > Len(player.pb)
       THEN /\ player' = [player EXCEPT !.pc = "returned", !.ret = Ok,
                                        !.value = play_returns(player.found_default)]
            /\ UNCHANGED <<pc, result, failed_step, played, fs>>
       ELSE IF player.pb[player.pb_iter] = "Default"
       THEN IF second_default = "bail"
            THEN /\ Step(FALSE, pc, "default_twice")
                 /\ player' = [player EXCEPT !.ret = Err("default_twice")]
                 /\ UNCHANGED <<played, fs>>
            ELSE /\ player' = [player EXCEPT !.pb_iter = @ + 1]
                 /\ UNCHANGED <<pc, result, failed_step, played, fs>>
       ELSE ExecuteAction
    /\ UNCHANGED <<recipe, playbook, state, stage_iter, hook_iter, kvars, log,
                   hooks_run, fvars>>

\* play returned Ok(found_default) to build_recipe: the stage body is complete.
PlayReturn ==
    /\ pc = "body"
    /\ player.pc = "returned"
    /\ BodyReturns(TRUE, "play")
    /\ player' = [player EXCEPT !.pc = "done"]
    /\ UNCHANGED <<recipe, playbook, state, stage_iter, kvars, fs, played, fvars>>

Next ==
    \/ StageBegin
    \/ Finish
    \/ HookSkip
    \/ HookRun
    \/ HooksDone
    \/ BodyPrepare
    \/ BodySplit
    \/ BodyPackage
    \/ BodyPackageDone
    \/ PlayBegin
    \/ PlayFirst
    \/ DefaultFetch
    \/ DefaultExtract
    \/ DefaultBuild
    \/ PlaySecond
    \/ PlayReturn

Spec == Init /\ [][Next]_vars

(***************************************************************************)
(* definition/mod.rs: Artifact; engine/fetcher.rs: Fetcher, DigestPool.    *)
(***************************************************************************)
Bytes == {0, 1}

\* The bodies the HTTP server may answer with.
Bodies == SeqsUpTo(Bytes, MaxBodyLen)

\* SHA-256, taken as collision free: the digest stands for its input.
Sha256(data) == [algo |-> "sha256", input |-> data]

None == [some |-> FALSE, digest |-> Sha256(<<>>)]
Some(d) == [some |-> TRUE, digest |-> d]

Urls == {<<"u">>, <<"v">>}
FileNames == {"a.tar", "b.tar"}

\* Verification::sha256: absent, or the digest a recipe states.
Verifications == {None, Some(Sha256(<<0>>)), Some(Sha256(<<0, 1>>))}

\* Artifact { source: Fetch { url, file_name }, verification }
Artifacts == [url : Urls, file_name : FileNames, sha256 : Verifications]

\* ArtifactSource::method_name
method_name(artifact) == <<"f", "e", "t", "c", "h">>

\* ArtifactSource::hash_data: the bytes of the url
hash_data(artifact) == artifact.url

\* Artifact::file_name
file_name(artifact) == artifact.file_name

\* An identity that also digests the expected hash.
hash_id_with_verification(artifact) ==
    Sha256(method_name(artifact) \o hash_data(artifact)
           \o (IF artifact.sha256.some THEN <<"s">> ELSE <<>>))

\* Artifact::hash_id: the digest of method_name followed by hash_data
hash_id(artifact) == Sha256(method_name(artifact) \o hash_data(artifact))

\* hex::encode_hex, one to one on digests
encode_hex(digest) == [hex |-> digest]

\* Fetcher::create_artifact_path: {cache_path}/{hex(hash_id)}-{file_name}
create_artifact_path(artifact) ==
    [dir |-> "cache_path", hash |-> encode_hex(hash_id(artifact)), name |-> file_name(artifact)]

Paths == {create_artifact_path(a) : a \in Artifacts}

NoFile == [exists |-> FALSE, data |-> <<>>]
File(data) == [exists |-> TRUE, data |-> data]

\* DigestPool::from_verification: one entry for each digest that is stated
from_verification(sha256) ==
    IF sha256.some THEN <<[fed |-> <<>>, expected |-> sha256.digest]>> ELSE <<>>

\* DigestPool::update: every hasher is fed the data
update(pool, data) == [i \in DOMAIN pool |-> [pool[i] EXCEPT !.fed = @ \o data]]

Mismatch(entry) == Sha256(entry.fed) # entry.expected

\* DigestPool::finish: the entries whose digest is not the expected one
finish(pool) == SelectSeq(pool, Mismatch)

\* Fetcher::verify_file: the whole file through a pool of the verification
verify_file(file, sha256) == finish(update(from_verification(sha256), file.data))

\* A write that always takes the whole chunk.
write_all(chunk) == {Len(chunk)}

\* f.write(&chunk): the number of bytes taken is all of the chunk or fewer,
\* and the code does not look at it.
write(chunk) == 1..Len(chunk)

\* A write of bytes through a handle whose position is pos: the bytes replace
\* what the file holds from pos on, and a position past the end of the file
\* (the file was truncated by another File::create) leaves a gap of zero bytes.
write_at(data, pos, bytes) ==
    LET gap == IF pos > Len(data) THEN [i \in 1..(pos - Len(data)) |-> 0] ELSE <<>>
        old == data \o gap
        end == IF pos + Len(bytes) > Len(old) THEN pos + Len(bytes) ELSE Len(old)
    IN [i \in 1..end |-> IF i > pos /\ i <= pos + Len(bytes) THEN bytes[i - pos] ELSE old[i]]

\* A stale cached file removed on a failed verification.
cache_mismatch_removes(file) == NoFile

\* The cached file after a failed verification of it: left as it is.
cache_mismatch(file) == file

\* A file that failed verification after the download left in place.
fetched_mismatch_keeps(file) == file

\* The file after a failed verification of the download: remove_file(&path)
fetched_mismatch(file) == NoFile

FetchIds == {1, 2}

FetchIdle ==
    [pc |-> "idle", artifact |-> CHOOSE a \in Artifacts : TRUE,
     path |-> create_artifact_path(CHOOSE a \in Artifacts : TRUE),
     cached |-> NoFile, resp |-> <<>>, pool |-> <<>>, streamed |-> <<>>,
     complete |-> FALSE, requests |-> 0, wrote |-> FALSE,
     pos |-> 0, orphan |-> FALSE,
     result |-> Running, affected |-> "none"]

InitFetch ==
    /\ recipe = [style |-> "Noop", sides |-> 0, artifacts |-> 0]
    /\ playbook = NoPlaybook
    /\ state = [stage |-> "Fetch", artifacts |-> <<>>, collected |-> FALSE]
    /\ stage_iter = 1
    /\ pc = "body"
    /\ hook_iter = 1
    /\ player = PlayerIdle
    /\ pkg_iter = 0
    /\ packaged = <<>>
    /\ result = Running
    /\ fs = {}
    /\ log = <<>>
    /\ hooks_run = <<>>
    /\ played = <<>>
    /\ failed_step = "none"
    /\ cache = [p \in Paths |-> NoFile]
    /\ fetches = [id \in FetchIds |-> FetchIdle]
    /\ server = 0
    /\ UnitsIdle

\* The fetch call returned; its locals (response, pool, file handle) are dropped.
Returned(f, res, affected, complete) ==
    [f EXCEPT !.pc = "done", !.result = res, !.affected = affected,
              !.complete = complete, !.resp = <<>>, !.pool = <<>>,
              !.pos = 0, !.orphan = FALSE,
              !.streamed = IF complete THEN @ ELSE <<>>]

Return(id, res, affected, complete) ==
    fetches' = [fetches EXCEPT ![id] = Returned(@, res, affected, complete)]

\* remove_file(&path) unlinks the name: a handle another call holds on the file
\* stays open on a file no path leads to.
Unlinked(f, path) ==
    IF f.pc = "stream" /\ f.path = path THEN [f EXCEPT !.orphan = TRUE] ELSE f

\* fetch(artifact) is called, one call at a time: the path is computed.
FetchStart(id) ==
    /\ fetches[id].pc = "idle"
    /\ \A other \in FetchIds : fetches[other].pc \in {"idle", "done"}
    /\ \A earlier \in FetchIds : earlier < id => fetches[earlier].pc = "done"
    /\ \E a \in Artifacts :
         fetches' = [fetches EXCEPT ![id].pc = "metadata", ![id].artifact = a,
                                    ![id].path = create_artifact_path(a)]
    /\ UNCHANGED <<cache, server, dvars>>

\* tokio::fs::metadata(&path): does the cache path exist?
FetchMetadata(id) ==
    /\ fetches[id].pc = "metadata"
    /\ fetches' = [fetches EXCEPT
                     ![id].pc = IF cache[fetches[id].path].exists THEN "verify" ELSE "request",
                     ![id].cached = cache[fetches[id].path]]
    /\ UNCHANGED <<cache, server, dvars>>

\* The cache path exists: verify_file decides between Ok and VerificationFailed.
FetchVerify(id) ==
    /\ fetches[id].pc = "verify"
    /\ LET f == fetches[id]
           file == cache[f.path]
       IN IF ~file.exists
          THEN /\ Return(id, Err("io"), "none", FALSE)
               /\ UNCHANGED cache
          ELSE IF verify_file(file, f.artifact.sha256) # <<>>
          THEN /\ Return(id, Err("VerificationFailed"), "Cache", FALSE)
               /\ cache' = [cache EXCEPT ![f.path] = cache_mismatch(file)]
          ELSE /\ Return(id, Ok, "none", FALSE)
               /\ UNCHANGED cache
    /\ UNCHANGED <<server, dvars>>

\* http_client.execute(req).await?: a response with some body, or an error.
FetchRequest(id) ==
    /\ fetches[id].pc = "request"
    /\ server' = server + 1
    /\ \/ \E body \in Bodies :
            fetches' = [fetches EXCEPT ![id].pc = "create", ![id].resp = body,
                                       ![id].requests = @ + 1]
       \/ fetches' = [fetches EXCEPT ![id].pc = "done", ![id].result = Err("http"),
                                     ![id].requests = @ + 1]
    /\ UNCHANGED <<cache, dvars>>

\* File::create(&path).await?, DigestPool::from_verification
FetchCreate(id) ==
    /\ fetches[id].pc = "create"
    /\ \/ /\ cache' = [cache EXCEPT ![fetches[id].path] = File(<<>>)]
          /\ fetches' = [fetches EXCEPT ![id].pc = "stream", ![id].wrote = TRUE,
                                        ![id].pos = 0, ![id].orphan = FALSE,
                                        ![id].pool = from_verification(fetches[id].artifact.sha256)]
       \/ /\ Return(id, Err("io"), "none", FALSE)
          /\ UNCHANGED cache
    /\ UNCHANGED <<server, dvars>>

\* while let Some(chunk) = resp.chunk().await? { pool.update; f.write }
FetchChunk(id) ==
    /\ fetches[id].pc = "stream"
    /\ fetches[id].resp # <<>>
    /\ LET f == fetches[id] IN
       \E n \in 1..Len(f.resp) :
         LET chunk == SubSeq(f.resp, 1, n) IN
         \E w \in write(chunk) :
           /\ fetches' = [fetches EXCEPT ![id].resp = SubSeq(f.resp, n + 1, Len(f.resp)),
                                         ![id].pool = update(f.pool, chunk),
                                         ![id].streamed = @ \o chunk,
                                         ![id].pos = @ + w]
           /\ cache' = IF f.orphan THEN cache
                       ELSE [cache EXCEPT ![f.path] =
                                File(write_at(@.data, f.pos, SubSeq(chunk, 1, w)))]
    /\ UNCHANGED <<server, dvars>>

\* resp.chunk().await? or f.write(&chunk).await? returns an error.
FetchStreamError(id) ==
    /\ fetches[id].pc = "stream"
    /\ fetches[id].resp # <<>>
    /\ \E e \in {"http", "io"} : Return(id, Err(e), "none", FALSE)
    /\ UNCHANGED <<cache, server, dvars>>

\* The body is complete: pool.finish(), then remove_file or sync_all.
FetchFinish(id) ==
    /\ fetches[id].pc = "stream"
    /\ fetches[id].resp = <<>>
    /\ LET f == fetches[id] IN
       IF finish(f.pool) # <<>>
       THEN IF cache[f.path].exists
            THEN /\ cache' = [cache EXCEPT ![f.path] = fetched_mismatch(@)]
                 /\ fetches' = [i \in FetchIds |->
                        IF i = id
                        THEN Returned(f, Err("VerificationFailed"), "Fetched", TRUE)
                        ELSE IF cache'[f.path].exists THEN fetches[i]
                        ELSE Unlinked(fetches[i], f.path)]
            ELSE /\ Return(id, Err("io"), "none", TRUE)
                 /\ UNCHANGED cache
       ELSE /\ Return(id, Ok, "none", TRUE)
            /\ UNCHANGED cache
    /\ UNCHANGED <<server, dvars>>

NextFetch ==
    \/ \E id \in FetchIds : FetchStart(id)
    \/ \E id \in FetchIds : FetchMetadata(id)
    \/ \E id \in FetchIds : FetchVerify(id)
    \/ \E id \in FetchIds : FetchRequest(id)
    \/ \E id \in FetchIds : FetchCreate(id)
    \/ \E id \in FetchIds : FetchChunk(id)
    \/ \E id \in FetchIds : FetchStreamError(id)
    \/ \E id \in FetchIds : FetchFinish(id)

SpecFetch == InitFetch /\ [][NextFetch]_vars

(***************************************************************************)
(* engine/mod.rs: Engine::fetch, the default body of the Fetch stage, with *)
(* the fetch calls of join_all taking their steps in any order.            *)
(***************************************************************************)

\* The recipes of two artifacts. The first one is drawn up to the names of
\* urls and files; the second one is any artifact.
RecipeArtifacts ==
    {<<a, b>> : a \in {x \in Artifacts : x.url = <<"u">> /\ x.file_name = "a.tar"},
                b \in Artifacts}

\* Engine::fetch is entered: join_all holds one fetch future for each artifact.
InitEngineFetch ==
    /\ playbook = NoPlaybook
    /\ state = [stage |-> "Fetch", artifacts |-> <<>>, collected |-> FALSE]
    /\ stage_iter = 1
    /\ pc = "body"
    /\ hook_iter = 1
    /\ player = [PlayerIdle EXCEPT !.pc = "default"]
    /\ pkg_iter = 0
    /\ packaged = <<>>
    /\ result = Running
    /\ fs = {}
    /\ log = <<>>
    /\ hooks_run = <<>>
    /\ played = <<>>
    /\ failed_step = "none"
    /\ cache = [p \in Paths |-> NoFile]
    /\ server = 0
    /\ UnitsIdle
    /\ \E arts \in RecipeArtifacts :
         /\ recipe = [style |-> "Noop", sides |-> 0, artifacts |-> Len(arts)]
         /\ fetches = [id \in FetchIds |-> [FetchIdle EXCEPT !.artifact = arts[id]]]

\* join_all polls the future of artifact id for the first time.
JoinAllPoll(id) ==
    /\ player.pc = "default"
    /\ fetches[id].pc = "idle"
    /\ fetches' = [fetches EXCEPT ![id].pc = "metadata",
                                  ![id].path = create_artifact_path(fetches[id].artifact)]
    /\ UNCHANGED <<cache, server, dvars>>

\* The results of join_all in the order of the artifacts, filtered by tag.
RECURSIVE Collect(_, _, _)
Collect(fs_, id, tag) ==
    IF id > Len(fs_) THEN <<>>
    ELSE (IF fs_[id].result.tag = tag THEN <<[artifact |-> id, result |-> fs_[id].result,
                                            path |-> fs_[id].path]>>
          ELSE <<>>) \o Collect(fs_, id + 1, tag)

\* An aggregate that holds only the first failure.
first_error(errs) == IF errs = <<>> THEN <<>> ELSE <<errs[1]>>

\* EngineError { errors }
EngineError(errs) == errs

\* join_all is complete: the Ok values become state.artifacts, or the errors
\* are returned together.
EngineFetchReturn ==
    /\ player.pc = "default"
    /\ \A id \in FetchIds : fetches[id].pc = "done"
    /\ LET ok == Collect(fetches, 1, "Ok")
           errs == Collect(fetches, 1, "Err")
       IN IF errs # <<>>
          THEN /\ errors' = EngineError(errs)
               /\ result' = Err("EngineError")
               /\ UNCHANGED state
          ELSE /\ state' = [state EXCEPT !.artifacts = ok]
               /\ result' = Ok
               /\ UNCHANGED errors
    /\ player' = [player EXCEPT !.pc = "returned"]
    /\ UNCHANGED <<recipe, playbook, stage_iter, pc, hook_iter, kvars, fs, log,
                   hooks_run, played, failed_step, cache, fetches, server, xvars, evars, cvars, svars, wvars>>

NextEngineFetch ==
    \/ \E id \in FetchIds : JoinAllPoll(id)
    \/ \E id \in FetchIds : FetchMetadata(id)
    \/ \E id \in FetchIds : FetchVerify(id)
    \/ \E id \in FetchIds : FetchRequest(id)
    \/ \E id \in FetchIds : FetchCreate(id)
    \/ \E id \in FetchIds : FetchChunk(id)
    \/ \E id \in FetchIds : FetchStreamError(id)
    \/ \E id \in FetchIds : FetchFinish(id)
    \/ EngineFetchReturn

SpecEngineFetch == InitEngineFetch /\ [][NextEngineFetch]_vars

(***************************************************************************)
(* engine/mod.rs: Engine::extract; engine/extractor.rs: Extractor::extract.*)
(***************************************************************************)

\* const GUESSES: suffix, archive, compression
GUESSES ==
    <<[ext |-> ".tar.gz", arch |-> "Tar", compr |-> "Gzip"],
      [ext |-> ".tar.xz", arch |-> "Tar", compr |-> "Xz"],
      [ext |-> ".tar.bz", arch |-> "Tar", compr |-> "Bz"],
      [ext |-> ".tar", arch |-> "Tar", compr |-> "None"],
      [ext |-> ".zip", arch |-> "Zip", compr |-> "None"]>>

\* The file names of the artifacts that are extracted.
ArchiveNames ==
    {"x.tar.gz", "x.tar.xz", "x.tar.bz", "x.tar", "x.zip", ".tar",
     "x.tar.bz2", "x.tgz", "x.tar.gz.sig", "tar", "x.zip.tar"}

\* A fetched artifact whose file is named n.
FetchedArtifact(n) ==
    LET a == [url |-> <<"u">>, file_name |-> n, sha256 |-> None]
    IN [artifact |-> a, path |-> create_artifact_path(a)]

\* artifact.path.file_name(): the last component of the cache path, which
\* create_artifact_path formats as hex digits, a dash and the file name. The
\* hex digits of the digest are written as the two digits 0f.
path_file_name(path) == "0f" \o "-" \o path.name

\* A test that looks for ext anywhere in x.
contains(x, ext) ==
    \E i \in 1..Len(x) : i + Len(ext) - 1 <= Len(x) /\ SubSeq(x, i, i + Len(ext) - 1) = ext

\* str::ends_with
ends_with(x, ext) ==
    Len(x) >= Len(ext) /\ SubSeq(x, Len(x) - Len(ext) + 1, Len(x)) = ext

\* GUESSES.iter().filter_map(..).next(): the first entry whose suffix ends
\* the file name of the path, or none.
guess(path) ==
    LET hits == SelectSeq(GUESSES, LAMBDA g : ends_with(path_file_name(path), g.ext))
    IN IF hits = <<>> THEN [found |-> FALSE, arch |-> "none", compr |-> "none"]
       ELSE [found |-> TRUE, arch |-> hits[1].arch, compr |-> hits[1].compr]

\* settings.source_path().join(&state.recipe.name)
source_path_join(name) == [dir |-> "source_path", name |-> name]

ExtractStart(i, into) == [ev |-> "start", item |-> i, into |-> into, arch |-> "none", compr |-> "none", ok |-> TRUE]
ExtractUnpacked(i, into, arch, compr) == [ev |-> "unpack", item |-> i, into |-> into, arch |-> arch, compr |-> compr, ok |-> TRUE]
ExtractEnd(i, into, res) == [ev |-> "end", item |-> i, into |-> into, arch |-> res.err, compr |-> "none", ok |-> res.tag = "Ok"]

\* Engine::extract is entered with the artifacts the Fetch stage left.
InitExtract ==
    /\ \E names \in SeqsUpTo(ArchiveNames, MaxArtifacts) :
         /\ recipe = [style |-> "Noop", sides |-> 0, artifacts |-> Len(names), name |-> "hello"]
         /\ state = [stage |-> "Extract", collected |-> FALSE,
                     artifacts |-> [i \in DOMAIN names |-> FetchedArtifact(names[i])]]
    /\ playbook = NoPlaybook
    /\ stage_iter = 1
    /\ pc = "body"
    /\ hook_iter = 1
    /\ player = [PlayerIdle EXCEPT !.pc = "default"]
    /\ pkg_iter = 0
    /\ packaged = <<>>
    /\ result = Running
    /\ fs = {}
    /\ log = <<>>
    /\ hooks_run = <<>>
    /\ played = <<>>
    /\ failed_step = "none"
    /\ cache = <<>>
    /\ fetches = <<>>
    /\ server = 0
    /\ errors = <<>>
    /\ extractor = [ExtractorIdle EXCEPT !.pc = "loop"]
    /\ extracted = <<>>
    /\ IdleBut("extract")

\* The steps of this unit leave everything but its own variables.
ExtractFrame ==
    UNCHANGED <<recipe, playbook, state, stage_iter, pc, hook_iter, player, kvars,
                result, fs, log, hooks_run, played, failed_step, cache, fetches,
                server, errors, evars, cvars, svars, wvars>>

\* A step of Extractor::extract that returned ok or an error: the ? of
\* Engine::extract returns the error, and Ok goes on to next.
ExtractStep(ok, next, what) ==
    /\ extractor' = [extractor EXCEPT
                       !.pc = Try(ok, next),
                       !.result = IF Try(ok, next) = "failed" THEN Err(what) ELSE @,
                       !.iter = IF Try(ok, next) = "loop" THEN @ + 1 ELSE @,
                       !.arch = IF ok THEN @ ELSE "none",
                       !.compr = IF ok THEN @ ELSE "none"]
    /\ extracted' = IF ok /\ next # "loop" THEN extracted
                    ELSE Append(extracted,
                                ExtractEnd(extractor.iter, source_path_join(recipe.name),
                                           IF ok THEN Ok ELSE Err(what)))

\* for item in &state.artifacts: extract(item, &state.recipe.name) is called.
ExtractCall ==
    /\ extractor.pc = "loop"
    /\ extractor.iter <= Len(state.artifacts)
    /\ extractor' = [extractor EXCEPT !.pc = "create_dir"]
    /\ extracted' = Append(extracted, ExtractStart(extractor.iter, source_path_join(recipe.name)))
    /\ ExtractFrame

\* tokio::fs::create_dir_all(&path).await?
ExtractCreateDir ==
    /\ extractor.pc = "create_dir"
    /\ \E ok \in BOOLEAN : ExtractStep(ok, "guess", "io")
    /\ ExtractFrame

\* The archive and compression are guessed from the file name, or bail.
ExtractGuess ==
    /\ extractor.pc = "guess"
    /\ LET found == guess(state.artifacts[extractor.iter].path) IN
       IF found.found
       THEN /\ extractor' = [extractor EXCEPT !.pc = "open", !.arch = found.arch,
                                              !.compr = found.compr]
            /\ UNCHANGED extracted
       ELSE ExtractStep(FALSE, "open", "couldn't guess archive type")
    /\ ExtractFrame

\* OpenOptions::new().read(true).open(&artifact.path).await?
ExtractOpen ==
    /\ extractor.pc = "open"
    /\ \E ok \in BOOLEAN : ExtractStep(ok, "unpack", "io")
    /\ ExtractFrame

\* The decompressed archive is unpacked into the path: all of it, or an error
\* on the way.
ExtractUnpack ==
    /\ extractor.pc = "unpack"
    /\ \E ok \in BOOLEAN :
         LET into == source_path_join(recipe.name)
             unpack == ExtractUnpacked(extractor.iter, into, extractor.arch, extractor.compr)
             end == ExtractEnd(extractor.iter, into, IF ok THEN Ok ELSE Err("unpack"))
         IN /\ extractor' = [extractor EXCEPT
                                !.pc = Try(ok, "loop"),
                                !.result = IF Try(ok, "loop") = "failed" THEN Err("unpack") ELSE @,
                                !.iter = IF Try(ok, "loop") = "loop" THEN @ + 1 ELSE @,
                                !.arch = "none", !.compr = "none"]
            /\ extracted' = extracted \o <<unpack, end>>
    /\ ExtractFrame

\* The loop is over: Engine::extract returns Ok(()).
ExtractReturn ==
    /\ extractor.pc = "loop"
    /\ extractor.iter > Len(state.artifacts)
    /\ extractor' = [extractor EXCEPT !.pc = "returned", !.result = Ok]
    /\ UNCHANGED extracted
    /\ ExtractFrame

NextExtract ==
    \/ ExtractCall
    \/ ExtractCreateDir
    \/ ExtractGuess
    \/ ExtractOpen
    \/ ExtractUnpack
    \/ ExtractReturn

SpecExtract == InitExtract /\ [][NextExtract]_vars

(***************************************************************************)
(* utils/elf.rs: ElfHeader.                                                *)
(***************************************************************************)
ELFCLASS32 == 1
ELFCLASS64 == 2
ELFDATA2LSB == 1
ELFDATA2MSB == 2
ET_EXEC == 2
ET_DYN == 3

\* let mut header = [0u8; 56]
HeaderBuffer == 56
\* amt_read < 24: the least a header is read from
MinRead == 24
\* 40 + (class.width() * 3)
RestBase == 40

\* b"\x7FELF"
ElfMagic == <<127, 69, 76, 70>>

\* ElfClass::width
width(class) == IF class = ELFCLASS32 THEN 4 ELSE 8

Zeros(n) == [i \in 1..n |-> 0]

\* The size of a complete ELF header of the class: 52 or 64 bytes.
ElfHeaderSize(class) == IF class = ELFCLASS64 THEN 64 ELSE 52

\* A 16-bit field as its two bytes in the byte order.
u16_bytes(v, order) ==
    IF order = ELFDATA2MSB THEN <<v \div 256, v % 256>> ELSE <<v % 256, v \div 256>>

\* The first len bytes of a file that begins with an ELF header: e_ident
\* (magic, class, data, EV_CURRENT and padding), e_type, e_machine and the
\* fields after them, which are zero here.
ElfFile(magic, class, order, type, machine, len) ==
    LET ident == magic \o <<class, order, 1>> \o Zeros(9)
        all == ident \o u16_bytes(type, order) \o u16_bytes(machine, order) \o Zeros(60)
    IN SubSeq(all, 1, len)

\* The inputs parse is called on.
ElfInputs ==
    {ElfFile(magic, class, order, type, machine, len) :
        magic \in {ElfMagic, <<127, 69, 76, 71>>},
        class \in 0..3, order \in 0..3, type \in 0..4, machine \in {0, 3, 62},
        len \in {8, 23, 24, 51, 52, 56, 63, 64, 80}}
    \cup {Zeros(24)}

\* input.read(&mut header): a reader over a file or a slice fills the buffer
\* as far as the input goes.
read(input, size) == IF Len(input) < size THEN Len(input) ELSE size

\* ReadBytesExt::read_u16::<LE> or <BE> at an offset of the buffer
read_u16(buffer, offset, order) ==
    IF order = ELFDATA2MSB
    THEN buffer[offset + 1] * 256 + buffer[offset + 2]
    ELSE buffer[offset + 1] + buffer[offset + 2] * 256

NoHeader == [tag |-> "Ok", some |-> FALSE, object_type |-> 0, machine |-> 0,
             class |-> 0, byte_order |-> 0]

\* ElfHeader::parse: Ok(None), or Ok(Some(header)) with the fields read in
\* the byte order of the file.
parse(input) ==
    LET amt_read == read(input, HeaderBuffer)
        header == [i \in 1..HeaderBuffer |-> IF i <= amt_read THEN input[i] ELSE 0]
    IN IF amt_read < MinRead \/ SubSeq(header, 1, 4) # ElfMagic THEN NoHeader
       ELSE IF header[5] \notin {ELFCLASS32, ELFCLASS64} THEN NoHeader
       ELSE IF header[6] \notin {ELFDATA2LSB, ELFDATA2MSB} THEN NoHeader
       ELSE IF amt_read < RestBase + width(header[5]) * 3 THEN NoHeader
       ELSE [tag |-> "Ok", some |-> TRUE,
             object_type |-> read_u16(header, 16, header[6]),
             machine |-> read_u16(header, 18, header[6]),
             class |-> header[5], byte_order |-> header[6]]

\* ElfHeader::is_shared_object
is_shared_object(header) == header.object_type = ET_DYN

\* ElfHeader::is_executable
is_executable(header) == header.object_type = ET_EXEC

\* A reader is at the start of some input.
InitElf ==
    /\ recipe = [style |-> "Noop", sides |-> 0, artifacts |-> 0]
    /\ state = [stage |-> "Install", artifacts |-> <<>>, collected |-> FALSE]
    /\ pc = "after"
    /\ EngineIdle
    /\ reader \in ElfInputs
    /\ parsed = NotParsed
    /\ IdleBut("elf")

\* ElfHeader::parse(&mut reader) is called and returns.
ElfParse ==
    /\ parsed = NotParsed
    /\ parsed' = parse(reader)
    /\ UNCHANGED <<recipe, playbook, state, stage_iter, pc, hook_iter, player, kvars,
                   result, fs, log, hooks_run, played, failed_step, cache, fetches,
                   server, errors, xvars, reader, cvars, svars, wvars>>

NextElf == ElfParse

SpecElf == InitElf /\ [][NextElf]_vars

(***************************************************************************)
(* engine/hooks/install/collect_elf.rs: CollectElf::run.                   *)
(***************************************************************************)

\* b"!<arch>\n"
ArMagic == <<33, 60, 97, 114, 99, 104, 62, 10>>

\* What a regular file under dest holds: nothing, the start of the archive
\* magic, the magic alone, archives with members, ELF files of 32 and 64 bits
\* whole and cut short, and other bytes.
FileContents ==
    {<<>>, SubSeq(ArMagic, 1, 2), ArMagic, ArMagic \o <<47>>, ArMagic \o <<47, 47, 10>>,
     ElfFile(ElfMagic, ELFCLASS32, ELFDATA2LSB, ET_EXEC, 3, 52),
     ElfFile(ElfMagic, ELFCLASS32, ELFDATA2LSB, ET_DYN, 3, 60),
     ElfFile(ElfMagic, ELFCLASS64, ELFDATA2LSB, ET_DYN, 62, 64),
     ElfFile(ElfMagic, ELFCLASS32, ELFDATA2LSB, ET_EXEC, 3, 8),
     Zeros(12)}

\* What FileWalker::next yields: regular files, symlinks and other entries
\* that are not directories. The path of an entry is its place in the walk.
DirEntries ==
    {[kind |-> "file", data |-> d] : d \in FileContents}
    \cup {[kind |-> "symlink", data |-> ArMagic \o <<47>>], [kind |-> "other", data |-> <<>>]}

\* file.read_exact(&mut buffer): Ok with the buffer filled, or an error at
\* the end of a file that is shorter than the buffer, with the bytes read up
\* to there in the buffer and the rest of it as it was.
read_exact(buffer, data) ==
    IF Len(data) >= Len(buffer)
    THEN [ok |-> TRUE, buffer |-> SubSeq(data, 1, Len(buffer))]
    ELSE [ok |-> FALSE, buffer |-> data \o SubSeq(buffer, Len(data) + 1, Len(buffer))]

\* if let Ok(_) = file.read_exact(&mut buffer).await { continue; }
skip_if_read(read_ok) == read_ok

\* CollectElf::run is called after the Install stage.
InitCollect ==
    /\ recipe = [style |-> "Noop", sides |-> 0, artifacts |-> 0]
    /\ state = [stage |-> "Install", artifacts |-> <<>>, collected |-> FALSE,
                archives |-> <<>>, elf_headers |-> {}]
    /\ pc = "after"
    /\ EngineIdle
    /\ dest \in SeqsUpTo(DirEntries, MaxFiles)
    /\ walker = WalkerIdle
    /\ IdleBut("collect")

CollectFrame ==
    UNCHANGED <<recipe, playbook, stage_iter, pc, hook_iter, player, kvars,
                result, fs, log, hooks_run, played, failed_step, cache, fetches,
                server, errors, xvars, evars, dest, svars, wvars>>

\* FileWalker::new(dest_path_for_recipe(..)).await?
CollectBegin ==
    /\ walker.pc = "idle"
    /\ \E ok \in BOOLEAN :
         walker' = [walker EXCEPT !.pc = Try(ok, "loop"),
                                  !.result = IF ok THEN @ ELSE Err("io")]
    /\ UNCHANGED state
    /\ CollectFrame

\* One turn of the while loop, on the entry dest.next() yields.
CollectEntry ==
    /\ walker.pc = "loop"
    /\ walker.iter <= Len(dest)
    /\ LET path == walker.iter
           entry == dest[path]
           next == [walker EXCEPT !.iter = @ + 1]
           got == read_exact(walker.buffer, entry.data)
           header == parse(entry.data)
       IN IF entry.kind # "file"
          THEN walker' = next /\ UNCHANGED state
          ELSE \/ /\ walker' = [walker EXCEPT !.pc = Try(FALSE, "loop"), !.result = Err("io")]
                  /\ UNCHANGED state
               \/ /\ walker' = [next EXCEPT !.buffer = got.buffer]
                  /\ IF skip_if_read(got.ok)
                     THEN UNCHANGED state
                     ELSE IF SubSeq(got.buffer, 1, 8) = ArMagic
                     THEN state' = [state EXCEPT !.archives = Append(@, path)]
                     ELSE IF header.some
                     THEN state' = [state EXCEPT !.elf_headers =
                                       {e \in @ : e.path # path}
                                       \cup {[path |-> path, header |-> header]}]
                     ELSE UNCHANGED state
    /\ CollectFrame

\* dest.next() is None: Ok(())
CollectReturn ==
    /\ walker.pc = "loop"
    /\ walker.iter > Len(dest)
    /\ walker' = [walker EXCEPT !.pc = "returned", !.result = Ok]
    /\ UNCHANGED state
    /\ CollectFrame

NextCollect ==
    \/ CollectBegin
    \/ CollectEntry
    \/ CollectReturn

SpecCollect == InitCollect /\ [][NextCollect]_vars

(***************************************************************************)
(* engine/hooks/install/strip_binaries.rs: StripBinaries::run, and         *)
(* engine/packager/apk.rs: Apk::build_package.                             *)
(***************************************************************************)

\* RecipeOptions::strip: Option<bool>
StripOptions == {[some |-> FALSE, value |-> FALSE], [some |-> TRUE, value |-> TRUE],
                 [some |-> TRUE, value |-> FALSE]}

\* The headers CollectElf can be handed by ElfHeader::parse: those of whole
\* 32-bit files of the object types REL, EXEC and DYN, with and without a
\* machine.
CollectedHeaders ==
    {parse(ElfFile(ElfMagic, ELFCLASS32, ELFDATA2LSB, type, machine, ElfHeaderSize(ELFCLASS32))) :
        type \in 1..3, machine \in {0, 62}}

\* What a path under dest was collected as: nothing, an archive, or a header.
Collected ==
    {[as |-> "none", header |-> NoHeader], [as |-> "archive", header |-> NoHeader]}
    \cup {[as |-> "elf", header |-> h] : h \in CollectedHeaders}

\* The exit status of a subprocess that was spawned and waited for.

\* Option::unwrap_or
unwrap_or(option, default) == IF option.some THEN option.value ELSE default

\* A gate that is open whatever the option says.
strip_always(options) == TRUE

\* state.recipe.options.strip.unwrap_or(true)
strip_enabled(options) == unwrap_or(options.strip, TRUE)

RECURSIVE PathsIn(_, _, _)
\* The paths of a kind, in the order of the walk.
PathsIn(found, as, i) ==
    IF i > Len(found) THEN <<>>
    ELSE (IF found[i].as = as THEN <<i>> ELSE <<>>) \o PathsIn(found, as, i + 1)

Command(program, flag, args, status) ==
    [program |-> program, flag |-> flag, args |-> args, status |-> status]

\* StripBinaries::run is called on what CollectElf left in the BuildState.
InitStrip ==
    /\ \E found \in [1..MaxFiles -> Collected], option \in StripOptions :
         /\ recipe = [style |-> "Noop", sides |-> 0, artifacts |-> 0,
                      options |-> [strip |-> option]]
         /\ state = [stage |-> "Install", artifacts |-> <<>>, collected |-> TRUE,
                     archives |-> PathsIn(found, "archive", 1),
                     elf_headers |-> {[path |-> i, header |-> found[i].header] :
                                         i \in {j \in 1..MaxFiles : found[j].as = "elf"}}]
    /\ pc = "after"
    /\ EngineIdle
    /\ strip = StripNotRun
    /\ apk = ApkNotRun
    /\ commands = <<>>
    /\ IdleBut("strip")

StripFrame ==
    UNCHANGED <<recipe, playbook, state, stage_iter, pc, hook_iter, player, kvars,
                result, fs, log, hooks_run, played, failed_step, cache, fetches,
                server, errors, xvars, evars, cvars, wvars>>

\* The gate on options.strip, then the loop over state.elf_headers.
StripBegin ==
    /\ strip.pc = "idle"
    /\ IF ~strip_enabled(recipe.options)
       THEN strip' = [strip EXCEPT !.pc = "returned", !.result = Ok]
       ELSE strip' = [strip EXCEPT
                        !.pc = "binaries",
                        !.libraries = {e.path : e \in {x \in state.elf_headers :
                                          x.header.machine # 0 /\ is_shared_object(x.header)}},
                        !.binaries = {e.path : e \in {x \in state.elf_headers :
                                          is_executable(x.header)}}]
    /\ UNCHANGED <<apk, commands>>
    /\ StripFrame

\* The list, the flag and the next step of each of the three commands.
StripPlan ==
    [binaries |-> [args |-> strip.binaries, flag |-> "", next |-> "libraries"],
     libraries |-> [args |-> strip.libraries, flag |-> "--strip-unneeded", next |-> "archives"],
     archives |-> [args |-> {state.archives[i] : i \in DOMAIN state.archives},
                   flag |-> "--strip-debug", next |-> "done"]]

\* Command::new(..).status().await?: Err when the command could not be run,
\* Ok(status) when it ran, whatever the status.
status_ok(spawned, status) == spawned

\* if list.len() > 0 { Command::new("strip")..args(list).status().await?; }
StripCommand ==
    /\ strip.pc \in {"binaries", "libraries", "archives"}
    /\ LET plan == StripPlan[strip.pc] IN
       IF plan.args = {}
       THEN /\ strip' = [strip EXCEPT !.pc = plan.next]
            /\ UNCHANGED commands
       ELSE \E spawned \in BOOLEAN, status \in ExitStatus :
              /\ spawned \/ status = 0
              /\ strip' = [strip EXCEPT
                              !.pc = Try(status_ok(spawned, status), plan.next),
                              !.result = IF status_ok(spawned, status) THEN @ ELSE Err("strip")]
              /\ commands' = IF spawned
                             THEN Append(commands, Command("strip", plan.flag, plan.args, status))
                             ELSE commands
    /\ UNCHANGED apk
    /\ StripFrame

\* Ok(())
StripReturn ==
    /\ strip.pc = "done"
    /\ strip' = [strip EXCEPT !.pc = "returned", !.result = Ok]
    /\ UNCHANGED <<apk, commands>>
    /\ StripFrame

\* Apk::build_package, which the Package stage calls when the hooks of the
\* stages before it have returned Ok: create_dir_all, spawn()?, wait().await?
ApkBuildPackage ==
    /\ strip.pc = "returned"
    /\ apk.pc = "idle"
    /\ \E spawned \in BOOLEAN, status \in ExitStatus :
         /\ spawned \/ status = 0
         /\ apk' = [apk EXCEPT
                       !.pc = Try(status_ok(spawned, status), "returned"),
                       !.result = IF status_ok(spawned, status) THEN Ok ELSE Err("apk")]
         /\ commands' = IF spawned
                        THEN Append(commands, Command("apk", "mkpkg", {"dest"}, status))
                        ELSE commands
    /\ UNCHANGED strip
    /\ StripFrame

NextStrip ==
    \/ StripBegin
    \/ StripCommand
    \/ StripReturn
    \/ ApkBuildPackage

SpecStrip == InitStrip /\ [][NextStrip]_vars

(***************************************************************************)
(* utils/mod.rs: FileWalker; engine/hooks/package/mod.rs: PinTimestamps.   *)
(***************************************************************************)

\* What SystemTime::now() gave build_recipe: a clock set before the epoch,
\* and instants on and off a whole microsecond.
BuildTimes == {Time(0 - 1, 0), Time(1, 0), Time(1, 2000), Time(1, 2500), Time(2, 999)}

\* The time stamps the entries have from the Install stage.
InstallTime == Time(0, 1)

\* settings.dest_path_for_recipe(recipe), settings.dest_path_for_side(side):
\* dest_path joined with the name, here the path of one name.
dest_path_for_recipe == <<"recipe">>
SideNames == <<"side1", "side2", "side3">>
dest_path_for_side(i) == <<SideNames[i]>>

\* An entry of a directory: a file, a directory, or a symlink with a target.
Entry(kind, target) == [kind |-> kind, target |-> target, atime |-> InstallTime,
                        mtime |-> InstallTime]

\* What a dest directory can be: missing, or a directory that holds a file,
\* a directory with or without a file in it, and (for the recipe) a symlink
\* to the directory.
Contents(root, links) ==
    {[p \in ps |-> IF p = root \o <<"l">> THEN Entry("symlink", root \o <<"d">>)
                   ELSE IF p \in {root, root \o <<"d">>} THEN Entry("dir", <<>>)
                   ELSE Entry("file", <<>>)] :
       ps \in {q \in SUBSET {root, root \o <<"f">>, root \o <<"d">>, root \o <<"d", "g">>,
                             root \o <<"l">>} :
                 /\ (q # {} => root \in q)
                 /\ (root \o <<"d", "g">> \in q => root \o <<"d">> \in q)
                 /\ (root \o <<"l">> \in q => links)}}

\* The union of functions with disjoint domains.
Merge(f, g) == [p \in DOMAIN f \cup DOMAIN g |-> IF p \in DOMAIN f THEN f[p] ELSE g[p]]

RECURSIVE SideTrees(_)
SideTrees(n) ==
    IF n = 0 THEN {<<>>}
    ELSE {Merge(t, c) : t \in SideTrees(n - 1), c \in Contents(dest_path_for_side(n), FALSE)}

\* The dest directories of a recipe with n sides.
DestTrees(n) == {Merge(t, c) : t \in SideTrees(n), c \in Contents(dest_path_for_recipe, TRUE)}

\* The roots pushed: the recipe's dest directory, then one per side.
PinRoots(n) == <<dest_path_for_recipe>> \o [i \in 1..n |-> dest_path_for_side(i)]

\* tokio::fs::read_dir(path) is an error when there is no such directory.
can_read_dir(t, dir) == dir \in DOMAIN t /\ t[dir].kind = "dir"

\* tokio::fs::read_dir(path): the entries directly in the directory.
read_dir(t, dir) ==
    [dir |-> dir,
     rest |-> {q \in DOMAIN t : Len(q) = Len(dir) + 1 /\ SubSeq(q, 1, Len(dir)) = dir}]

\* A symlink to a directory taken for a directory.
is_dir_followed(t, path) ==
    \/ t[path].kind = "dir"
    \/ t[path].kind = "symlink" /\ t[path].target \in DOMAIN t /\ t[t[path].target].kind = "dir"

\* file_type().is_dir(): a symlink is not a directory, whatever it points to.
is_dir(t, path) == t[path].kind = "dir"

\* state.build_time.duration_since(UNIX_EPOCH): an error before the epoch.
duration_since_epoch(time) == [ok |-> time.secs >= 0, secs |-> time.secs, nanos |-> time.nanos]

\* libc::timeval { tv_sec: min(as_secs, time_t::MAX), tv_usec: subsec_micros }.
\* A SystemTime holds no more seconds than time_t::MAX, so min keeps as_secs.
timeval(duration) == [tv_sec |-> duration.secs, tv_usec |-> duration.nanos \div 1000]

\* The time stamp a file has from a timeval.
timespec(tv) == Time(tv.tv_sec, tv.tv_usec * 1000)

\* utimes: the time stamps of what the path resolves to.
utimes(t, path, tv) ==
    LET at == IF t[path].kind = "symlink" THEN t[path].target ELSE path
    IN [t EXCEPT ![at].atime = timespec(tv), ![at].mtime = timespec(tv)]

\* libc::lutimes(path, [tv, tv]): the time stamps of the entry itself.
lutimes(t, path, tv) == [t EXCEPT ![path].atime = timespec(tv), ![path].mtime = timespec(tv)]

\* PinTimestamps::run is called before the Package stage.
InitPin ==
    /\ recipe \in [style : {"Noop"}, sides : 0..MaxSides, artifacts : {0}]
    /\ state \in [stage : {"Package"}, artifacts : {<<>>}, collected : {TRUE},
                  build_time : BuildTimes]
    /\ pc = "before"
    /\ EngineIdle
    /\ tree \in DestTrees(recipe.sides)
    /\ pin = PinNotRun
    /\ split = SplitNotRun
    /\ IdleBut("pin")

PinFrame ==
    UNCHANGED <<recipe, playbook, state, stage_iter, pc, hook_iter, player, kvars,
                result, fs, log, hooks_run, played, failed_step, cache, fetches,
                server, errors, xvars, evars, cvars, svars, split, gvars, files>>

\* let duration = state.build_time.duration_since(UNIX_EPOCH)?; let tv = ..
\* let mut files = FileWalker::empty(true);
PinBegin ==
    /\ pin.pc = "idle"
    /\ LET duration == duration_since_epoch(state.build_time)
       IN pin' = [pin EXCEPT !.pc = Try(duration.ok, "push"),
                             !.tv = IF duration.ok THEN timeval(duration) ELSE @,
                             !.result = IF duration.ok THEN @ ELSE Err("time")]
    /\ UNCHANGED tree
    /\ PinFrame

\* files.push(path).await? for the recipe, then for each side.
PinPush ==
    /\ pin.pc = "push"
    /\ pin.pushed < Len(PinRoots(recipe.sides))
    /\ LET path == PinRoots(recipe.sides)[pin.pushed + 1]
       IN \E ok \in {b \in BOOLEAN : b => can_read_dir(tree, path)} :
            pin' = IF ok
                   THEN [pin EXCEPT !.pushed = @ + 1, !.stack = Append(@, read_dir(tree, path))]
                   ELSE [pin EXCEPT !.pc = Try(FALSE, "push"), !.result = Err("io")]
    /\ UNCHANGED tree
    /\ PinFrame

\* Every root is pushed: the while loop begins.
PinPushed ==
    /\ pin.pc = "push"
    /\ pin.pushed = Len(PinRoots(recipe.sides))
    /\ pin' = [pin EXCEPT !.pc = "walk"]
    /\ UNCHANGED tree
    /\ PinFrame

\* FileWalker::next, the directory on top has no entry left: self.stack.pop()
PinPop ==
    /\ pin.pc = "walk"
    /\ pin.stack # <<>>
    /\ pin.stack[Len(pin.stack)].rest = {}
    /\ pin' = [pin EXCEPT !.stack = SubSeq(@, 1, Len(@) - 1)]
    /\ UNCHANGED tree
    /\ PinFrame

\* FileWalker::next yields an entry of the directory on top, in the order
\* the directory gives them, and the loop body calls lutimes on it.
PinEntry ==
    /\ pin.pc = "walk"
    /\ pin.stack # <<>>
    /\ \E next \in pin.stack[Len(pin.stack)].rest :
         LET taken == [pin.stack EXCEPT ![Len(pin.stack)].rest = @ \ {next}]
             with_directories == TRUE
         IN \/ /\ pin' = [pin EXCEPT !.pc = Try(FALSE, "walk"), !.stack = taken,
                                     !.result = Err("io")]
               /\ UNCHANGED tree
            \/ /\ pin' = [pin EXCEPT !.stack = IF is_dir(tree, next)
                                               THEN Append(taken, read_dir(tree, next))
                                               ELSE taken]
               /\ tree' = IF is_dir(tree, next) => with_directories
                          THEN lutimes(tree, next, pin.tv)
                          ELSE tree
    /\ PinFrame

\* files.next() is None: Ok(())
PinReturn ==
    /\ pin.pc = "walk"
    /\ pin.stack = <<>>
    /\ pin' = [pin EXCEPT !.pc = "returned", !.result = Ok]
    /\ UNCHANGED tree
    /\ PinFrame

NextPin ==
    \/ PinBegin
    \/ PinPush
    \/ PinPushed
    \/ PinPop
    \/ PinEntry
    \/ PinReturn

SpecPin == InitPin /\ [][NextPin]_vars

(***************************************************************************)
(* engine/mod.rs: Engine::split_claims.                                    *)
(***************************************************************************)

\* The claim globs of the model, one pattern per path component: names, *
\* for any one component, and a pattern that Glob::from_str rejects.
ClaimGlobs == {<<"f">>, <<"d">>, <<"d", "*">>, <<"*">>, <<"x">>, <<"{">>}

\* side.claims: no claim, one claim, and two claims of which the second
\* names what the first has moved or the directory it was moved from.
ClaimLists ==
    {<<>>} \cup {<<c>> : c \in ClaimGlobs}
    \cup {<<<<"f">>, <<"*">>>>, <<<<"d", "*">>, <<"d">>>>, <<<<"d">>, <<"d", "*">>>>}

\* wax::Glob::from_str(&own)
glob_from_str(claim) == [ok |-> \A i \in 1..Len(claim) : claim[i] # "{", pattern |-> claim]

\* The glob matches a path relative to the directory walked.
is_match(pattern, path) ==
    /\ Len(pattern) = Len(path)
    /\ \A i \in 1..Len(path) : pattern[i] \in {"*", path[i]}

\* glob.walk(&dest) with item.to_candidate_path(): the paths relative to
\* dest of the entries of any kind that the glob matches.
glob_walk(t, dest_, pattern) ==
    {SubSeq(p, Len(dest_) + 1, Len(p)) :
       p \in {q \in DOMAIN t : /\ Len(q) > Len(dest_)
                               /\ SubSeq(q, 1, Len(dest_)) = dest_
                               /\ is_match(pattern, SubSeq(q, Len(dest_) + 1, Len(q)))}}

\* path.parent(): Some for every path of at least one component.
parent(path) == SubSeq(path, 1, Len(path) - 1)

IsUnder(dir, p) == Len(p) > Len(dir) /\ SubSeq(p, 1, Len(dir)) = dir

\* The directories create_dir_all has to find or make: the path and all
\* that is above it.
Ancestors(path) == {SubSeq(path, 1, n) : n \in 1..Len(path)}

\* create_dir_all fails on a component that is there and is no directory.
can_create_dir_all(t, path) == \A a \in Ancestors(path) : a \in DOMAIN t => t[a].kind = "dir"

\* A directory made by create_dir_all.
Created == [kind |-> "dir", target |-> <<>>, atime |-> InstallTime, mtime |-> InstallTime,
            origin |-> <<>>]

\* tokio::fs::create_dir_all(path)
create_dir_all(t, path) ==
    [p \in DOMAIN t \cup Ancestors(path) |-> IF p \in DOMAIN t THEN t[p] ELSE Created]

\* rename(2) fails when the source is gone, when the directory of the target
\* is missing, and when the target is there and is a directory with entries
\* or is of the other kind.
can_rename(t, from, to) ==
    /\ from \in DOMAIN t
    /\ can_read_dir(t, parent(to))
    /\ to \in DOMAIN t =>
         /\ (t[to].kind = "dir") = (t[from].kind = "dir")
         /\ \A p \in DOMAIN t : ~IsUnder(to, p)

\* tokio::fs::rename(from, to): the entry and all below it are at the new
\* path, in place of what was there.
rename(t, from, to) ==
    LET moved == {p \in DOMAIN t : p = from \/ IsUnder(from, p)}
        at(p) == to \o SubSeq(p, Len(from) + 1, Len(p))
        kept == (DOMAIN t \ moved) \ {to}
    IN [q \in kept \cup {at(p) : p \in moved} |->
          IF q \in kept THEN t[q]
          ELSE t[CHOOSE p \in moved : at(p) = q]]

\* The target under the side's directory named by the file name alone.
join_file_name(side_path, path) ==
    IF path = <<>> THEN side_path ELSE side_path \o <<path[Len(path)]>>

\* side_path.join(&path)
join(side_path, path) == side_path \o path

\* The recipe's dest directory as the Install stage left it: each entry
\* remembers the path it has there.
Installed(t) == [p \in DOMAIN t |-> [kind |-> t[p].kind, target |-> t[p].target,
                                     atime |-> t[p].atime, mtime |-> t[p].mtime,
                                     origin |-> p]]

\* split_claims is called as the body of the Split stage: the dest
\* directories of the sides are not there yet.
InitSplit ==
    /\ \E n \in 0..MaxSides :
         recipe \in [style : {"Noop"}, sides : {n}, artifacts : {0},
                     claims : [1..n -> ClaimLists]]
    /\ state = [stage |-> "Split", artifacts |-> <<>>, collected |-> TRUE]
    /\ pc = "body"
    /\ EngineIdle
    /\ tree \in {Installed(t) : t \in Contents(dest_path_for_recipe, TRUE)}
    /\ pin = PinNotRun
    /\ split = SplitNotRun
    /\ IdleBut("pin")

SplitFrame ==
    UNCHANGED <<recipe, playbook, state, stage_iter, pc, hook_iter, player, kvars,
                result, fs, log, hooks_run, played, failed_step, cache, fetches,
                server, errors, xvars, evars, cvars, svars, pin, gvars, files>>

\* let dest = self.settings.dest_path_for_recipe(recipe);
SplitBegin ==
    /\ split.pc = "idle"
    /\ split' = [split EXCEPT !.pc = "side"]
    /\ UNCHANGED tree
    /\ SplitFrame

\* for side in &recipe.sides { let side_path = ..
SplitSide ==
    /\ split.pc = "side"
    /\ split.side <= recipe.sides
    /\ split' = [split EXCEPT !.pc = "claim", !.claim = 1]
    /\ UNCHANGED tree
    /\ SplitFrame

\* for claim in &side.claims { let glob = wax::Glob::from_str(&own)?;
\* for item in glob.walk(&dest) ..
SplitClaim ==
    /\ split.pc = "claim"
    /\ LET claims == recipe.claims[split.side] IN
       IF split.claim > Len(claims)
       THEN split' = [split EXCEPT !.pc = "side", !.side = @ + 1]
       ELSE LET glob == glob_from_str(claims[split.claim]) IN
            IF glob.ok
            THEN split' = [split EXCEPT !.pc = "walk",
                                        !.todo = glob_walk(tree, dest_path_for_recipe, glob.pattern)]
            ELSE split' = [split EXCEPT !.pc = Try(FALSE, "walk"), !.result = Err("glob")]
    /\ UNCHANGED tree
    /\ SplitFrame

\* One item of the walk: an error of the walk is passed over; for an entry
\* the parent is created under the side's directory and the entry renamed.
SplitItem ==
    /\ split.pc = "walk"
    /\ \E path \in split.todo :
         LET side_path == dest_path_for_side(split.side)
             taken == [split EXCEPT !.todo = @ \ {path}]
             made == create_dir_all(tree, join(side_path, parent(path)))
             from == join(dest_path_for_recipe, path)
             to == join(side_path, path)
         IN \/ /\ split' = [taken EXCEPT !.skipped = @ \cup {path}]
               /\ UNCHANGED tree
            \/ /\ split' = [taken EXCEPT !.pc = Try(FALSE, "walk"), !.result = Err("io")]
               /\ UNCHANGED tree
            \/ /\ can_create_dir_all(tree, join(side_path, parent(path)))
               /\ IF can_rename(made, from, to)
                  THEN \/ split' = taken /\ tree' = rename(made, from, to)
                       \/ /\ split' = [taken EXCEPT !.pc = Try(FALSE, "walk"),
                                                    !.result = Err("io")]
                          /\ tree' = made
                  ELSE /\ split' = [taken EXCEPT !.pc = Try(FALSE, "walk"), !.result = Err("io")]
                       /\ tree' = made
    /\ SplitFrame

\* The walk has no more item: drop(glob), the next claim.
SplitWalked ==
    /\ split.pc = "walk"
    /\ split.todo = {}
    /\ split' = [split EXCEPT !.pc = "claim", !.claim = @ + 1]
    /\ UNCHANGED tree
    /\ SplitFrame

\* Every side is done: Ok(())
SplitReturn ==
    /\ split.pc = "side"
    /\ split.side > recipe.sides
    /\ split' = [split EXCEPT !.pc = "returned", !.result = Ok]
    /\ UNCHANGED tree
    /\ SplitFrame

NextSplit ==
    \/ SplitBegin
    \/ SplitSide
    \/ SplitClaim
    \/ SplitItem
    \/ SplitWalked
    \/ SplitReturn

SpecSplit == InitSplit /\ [][NextSplit]_vars

(***************************************************************************)
(* definition/parsing.rs, definition/actions/parsing.rs: the parsers of a  *)
(* KDL document into a Document of Recipes.                                *)
(***************************************************************************)

\* A KDL value: a string, a bool or a number.
Str(s) == [type |-> "string", s |-> s, b |-> FALSE]
Bool(b) == [type |-> "bool", s |-> "", b |-> b]
Number == [type |-> "int", s |-> "", b |-> FALSE]

\* A KDL entry: an argument (entry.name() is None) or a property.
Arg(v) == [name |-> "", value |-> v]
Prop(k, v) == [name |-> k, value |-> v]

\* entry.name().is_some()
has_name(entry) == entry.name # ""

\* A KDL node: its name, its entries and the nodes of its children block.
Node(name, entries, children) == [name |-> name, entries |-> entries, children |-> children]

\* What the extract_ functions return: Ok with the value, or the error.
Extracted(value) == [ok |-> TRUE, value |-> value, extends |-> TRUE, kind |-> ""]
ExtractedList(values, extends) == [ok |-> TRUE, value |-> values, extends |-> extends, kind |-> ""]
ExtractError(kind) == [ok |-> FALSE, value |-> <<>>, extends |-> TRUE, kind |-> kind]

\* extract_single_string_value, with the messages parse_string_into! makes
\* from the name.
extract_single_string_value(input, name) ==
    IF Len(input.entries) = 0 THEN ExtractError(name \o " missing")
    ELSE IF Len(input.entries) = 1
    THEN LET name_entry == input.entries[1] IN
         IF has_name(name_entry)
         THEN ExtractError(name \o " expected a value, property found instead")
         ELSE IF name_entry.value.type = "string" THEN Extracted(name_entry.value.s)
         ELSE ExtractError(name \o " should be a string")
    ELSE ExtractError("only 1 string expected for " \o name)

\* extract_single_bool_value, with the messages parse_bool_into! makes.
extract_single_bool_value(input, name) ==
    IF Len(input.entries) = 0 THEN ExtractError(name \o " missing")
    ELSE IF Len(input.entries) = 1
    THEN LET name_entry == input.entries[1] IN
         IF has_name(name_entry)
         THEN ExtractError(name \o " expected a value, property found instead")
         ELSE IF name_entry.value.type = "bool" THEN Extracted(name_entry.value.b)
         ELSE ExtractError(name \o " should be a bool")
    ELSE ExtractError("only 1 bool expected for " \o name)

RECURSIVE string_values(_, _, _, _)
string_values(entries, i, values, name) ==
    IF i > Len(entries) THEN ExtractedList(values, TRUE)
    ELSE IF has_name(entries[i])
    THEN ExtractError(name \o " expected values, property found instead")
    ELSE IF entries[i].value.type = "string"
    THEN string_values(entries, i + 1, Append(values, entries[i].value.s), name)
    ELSE ExtractError(name \o " expects only string values")

\* extract_string_values
extract_string_values(input, name) == string_values(input.entries, 1, <<>>, name)

RECURSIVE string_values_with_extend(_, _, _, _, _, _)
string_values_with_extend(entries, i, values, first, extends, name) ==
    IF i > Len(entries) THEN ExtractedList(values, extends)
    ELSE IF first /\ entries[i].name = "extends"
    THEN IF entries[i].value.type = "bool"
         THEN string_values_with_extend(entries, i + 1, values, first, entries[i].value.b, name)
         ELSE ExtractError("extends expects a bool")
    ELSE IF has_name(entries[i])
    THEN ExtractError(name \o " expected values, property found instead")
    ELSE IF entries[i].value.type = "string"
    THEN string_values_with_extend(entries, i + 1, Append(values, entries[i].value.s),
                                   FALSE, extends, name)
    ELSE ExtractError(name \o " expects only string values")

\* extract_string_values_with_extend
extract_string_values_with_extend(input, name) ==
    string_values_with_extend(input.entries, 1, <<>>, TRUE, TRUE, name)

\* An Option: None, or Some with the value.
NoValue == [some |-> FALSE, v |-> <<>>]
SomeOf(v) == [some |-> TRUE, v |-> v]

\* impl ListExtHelper for Vec<T>: set
vec_set(self, value) == value

\* impl ListExtHelper for Vec<T>: add
vec_add(self, value) == self \o value

\* impl ListExtHelper for Option<Vec<T>>: add and set
option_add(self, value) == IF self.some THEN SomeOf(self.v \o value) ELSE SomeOf(value)
option_set(self, value) == SomeOf(value)

\* Err(e) => $errors.push(e), in each of the macros below: acc holds the
\* locals of the parser that uses the macro, errors among them.
push_error(acc, res) == [acc EXCEPT !.errors = Append(@, res.kind)]

\* parse_string_into!, parse_bool_into!: Ok(n) => $into = n.into(), on a
\* String or a bool and on an Option of one.
parse_string_into(acc, into, res) ==
    IF res.ok THEN [acc EXCEPT ![into] = res.value] ELSE push_error(acc, res)

parse_option_into(acc, into, res) ==
    IF res.ok THEN [acc EXCEPT ![into] = SomeOf(res.value)] ELSE push_error(acc, res)

\* parse_string_list_into!: Ok(n) => $into.add(n)
parse_string_list_into(acc, into, res) ==
    IF res.ok THEN [acc EXCEPT ![into] = vec_add(@, res.value)] ELSE push_error(acc, res)

\* parse_string_list_ext_into!: Ok((n, true)) => $into.add(n),
\* Ok((n, false)) => $into.set(n), on a Vec and on an Option<Vec>.
parse_string_list_ext_into(acc, into, res) ==
    IF ~res.ok THEN push_error(acc, res)
    ELSE IF res.extends THEN [acc EXCEPT ![into] = vec_add(@, res.value)]
    ELSE [acc EXCEPT ![into] = vec_set(@, res.value)]

parse_option_list_ext_into(acc, into, res) ==
    IF ~res.ok THEN push_error(acc, res)
    ELSE IF res.extends THEN [acc EXCEPT ![into] = option_add(@, res.value)]
    ELSE [acc EXCEPT ![into] = option_set(@, res.value)]

\* What a parse_node_with_errors returns: (Option<Self>, Vec<HobParseError>).
Parsed(data, errs) == [some |-> TRUE, data |-> data, errors |-> errs]
ParsedNone(errs) == [some |-> FALSE, data |-> <<>>, errors |-> errs]

\* errors.extend(err); if let Some(x) = x { into.push(x) }, and the same
\* with into.extend(x)
push_parsed(acc, into, item) ==
    IF item.some
    THEN [acc EXCEPT ![into] = Append(@, item.data), !.errors = @ \o item.errors]
    ELSE [acc EXCEPT !.errors = @ \o item.errors]

extend_parsed(acc, into, items) ==
    IF items.some
    THEN [acc EXCEPT ![into] = @ \o items.data, !.errors = @ \o items.errors]
    ELSE [acc EXCEPT !.errors = @ \o items.errors]

\* errors.extend(err); if let Some(x) = x { into = Some(x) }
set_parsed(acc, into, item) ==
    IF item.some
    THEN [acc EXCEPT ![into] = SomeOf(item.data), !.errors = @ \o item.errors]
    ELSE [acc EXCEPT !.errors = @ \o item.errors]

NoString == [some |-> FALSE, v |-> ""]

\* An Action: its kind, its list of strings and its single string (the
\* output of cc, the target of link).
Action(kind, args, output) == [kind |-> kind, args |-> args, output |-> output]

\* One turn of the loop of CcAction over input.entries().
cc_entry(acc, entry) ==
    IF has_name(entry)
    THEN IF entry.name # "output" THEN acc
         ELSE IF acc.output.some
         THEN IF entry.value.type = "string"
              THEN [acc EXCEPT !.output = SomeOf(entry.value.s),
                               !.errors = Append(@, "output is defined multiple times for cc")]
              ELSE [acc EXCEPT !.errors = @ \o <<"output is defined multiple times for cc",
                                                 "output value should be a string">>]
         ELSE IF entry.value.type = "string"
         THEN [acc EXCEPT !.output = SomeOf(entry.value.s)]
         ELSE [acc EXCEPT !.errors = Append(@, "output value should be a string")]
    ELSE IF entry.value.type = "string"
    THEN [acc EXCEPT !.inputs = Append(@, entry.value.s)]
    ELSE [acc EXCEPT !.errors = Append(@, "input value should be a string")]

RECURSIVE cc_entries(_, _, _)
cc_entries(entries, i, acc) ==
    IF i > Len(entries) THEN acc ELSE cc_entries(entries, i + 1, cc_entry(acc, entries[i]))

\* if let (Some(output), false) = (output, input.is_empty())
CcAction_new(acc) ==
    IF acc.output.some /\ acc.inputs # <<>>
    THEN Parsed(Action("Cc", acc.inputs, acc.output.v), acc.errors)
    ELSE ParsedNone(acc.errors)

\* CcAction::parse_node_with_errors
CcAction_parse(input) ==
    CcAction_new(cc_entries(input.entries, 1,
                            [output |-> NoString, inputs |-> <<>>, errors |-> <<>>]))

ListAction_new(kind, acc) == Parsed(Action(kind, acc.args, ""), acc.errors)

\* BinAction, ManAction, DirAction, RmAction ::parse_node_with_errors
ListAction_parse(kind, input) ==
    ListAction_new(kind, parse_string_list_into([args |-> <<>>, errors |-> <<>>], "args",
                                                extract_string_values(input, "bin arguments")))

\* if args.len() < 2: the last of the strings is the target
LinkAction_new(acc) ==
    IF Len(acc.args) < 2
    THEN ParsedNone(Append(acc.errors, "link needs at least 2 arguments, source and target"))
    ELSE Parsed(Action("Link", SubSeq(acc.args, 1, Len(acc.args) - 1), acc.args[Len(acc.args)]),
                acc.errors)

\* LinkAction::parse_node_with_errors
LinkAction_parse(input) ==
    LinkAction_new(parse_string_list_into([args |-> <<>>, errors |-> <<>>], "args",
                                          extract_string_values(input, "bin arguments")))

\* Action::parse_node_with_errors
Action_parse(input) ==
    CASE input.name = ".default" -> Parsed(Action("Default", <<>>, ""), <<>>)
      [] input.name = "make" -> Parsed(Action("Make", <<>>, ""), <<>>)
      [] input.name = "make-install" -> Parsed(Action("MakeInstall", <<>>, ""), <<>>)
      [] input.name = "cc" -> CcAction_parse(input)
      [] input.name = "bin" -> ListAction_parse("Bin", input)
      [] input.name = "man" -> ListAction_parse("Man", input)
      [] input.name = "rm" -> ListAction_parse("Rm", input)
      [] input.name = "dir" -> ListAction_parse("Dir", input)
      [] input.name = "link" -> LinkAction_parse(input)
      [] OTHER -> ParsedNone(<<"unknown action">>)

\* Stage::from_str
Stage_from_str(input) ==
    CASE input = "fetch" -> SomeOf("Fetch")
      [] input = "prepare" -> SomeOf("Prepare")
      [] input = "extract" -> SomeOf("Extract")
      [] input = "configure" -> SomeOf("Configure")
      [] input = "build" -> SomeOf("Build")
      [] input = "install" -> SomeOf("Install")
      [] OTHER -> NoString

RECURSIVE playbook_nodes(_, _, _)
playbook_nodes(nodes, i, acc) ==
    IF i > Len(nodes) THEN acc
    ELSE playbook_nodes(nodes, i + 1, push_parsed(acc, "actions", Action_parse(nodes[i])))

ActionPlaybook_new(st, acc) ==
    IF ~st.some THEN ParsedNone(<<"unknown stage">>)
    ELSE Parsed([stage |-> st.v, actions |-> acc.actions], acc.errors)

\* ActionPlaybook::parse_node_with_errors
ActionPlaybook_parse(input) ==
    ActionPlaybook_new(Stage_from_str(input.name),
                       playbook_nodes(input.children, 1, [actions |-> <<>>, errors |-> <<>>]))

\* BuildStyleType::parse
BuildStyleType_parse(data) ==
    CASE data = "noop" -> SomeOf("Noop")
      [] data = "configure" -> SomeOf("Configure")
      [] data = "gnu-configure" -> SomeOf("GnuConfigure")
      [] OTHER -> NoString

\* BuildStyleVariables::default(), of the two variables the parser sets.
NoVariables == [configure_script |-> NoString, configure_args |-> NoValue]

\* One turn of the loop of BuildStyleVariables over input.nodes(): both
\* macros are given input, the style node, and not the node of the turn.
variables_node(acc, input, node) ==
    CASE node.name = "configure-script" ->
           parse_option_into(acc, "configure_script",
                             extract_single_string_value(input, "configure script"))
      [] node.name = "configure-args" ->
           parse_option_list_ext_into(acc, "configure_args",
                                      extract_string_values_with_extend(input, "configure args"))
      [] OTHER -> acc

RECURSIVE variables_nodes(_, _, _, _)
variables_nodes(input, nodes, i, acc) ==
    IF i > Len(nodes) THEN acc
    ELSE variables_nodes(input, nodes, i + 1, variables_node(acc, input, nodes[i]))

BuildStyleVariables_new(acc) ==
    Parsed([configure_script |-> acc.configure_script, configure_args |-> acc.configure_args],
           acc.errors)

\* BuildStyleVariables::parse_node_with_errors
BuildStyleVariables_parse(input) ==
    BuildStyleVariables_new(variables_nodes(input, input.children, 1,
                                            [configure_script |-> NoString,
                                             configure_args |-> NoValue, errors |-> <<>>]))

\* style.and_then(BuildStyleType::parse), the error of an unknown style,
\* then the variables and their errors.
BuildStyle_new(acc, vars_) ==
    IF acc.style.some /\ BuildStyleType_parse(acc.style.v).some
    THEN Parsed([style |-> BuildStyleType_parse(acc.style.v).v, vars |-> vars_.data],
                acc.errors \o vars_.errors)
    ELSE Parsed([style |-> "Noop", vars |-> vars_.data],
                Append(acc.errors, "unknown build style found") \o vars_.errors)

\* BuildStyle::parse_node_with_errors, on a style node with an entry (with
\* none, entries().first().unwrap() panics).
BuildStyle_parse(input) ==
    BuildStyle_new(parse_option_into([style |-> NoString, errors |-> <<>>], "style",
                                     extract_single_string_value(input, "name of build style")),
                   BuildStyleVariables_parse(input))

\* BuildStyle::default()
DefaultStyle == [style |-> "Noop", vars |-> NoVariables]

NoBool == [some |-> FALSE, v |-> FALSE]

RECURSIVE options_nodes(_, _, _)
options_nodes(nodes, i, acc) ==
    IF i > Len(nodes) THEN acc
    ELSE options_nodes(nodes, i + 1,
           IF nodes[i].name = "strip"
           THEN parse_option_into(acc, "strip", extract_single_bool_value(nodes[i], "strip"))
           ELSE acc)

RecipeOptions_new(acc) == Parsed([strip |-> acc.strip], acc.errors)

\* RecipeOptions::parse_node_with_errors
RecipeOptions_parse(input) ==
    RecipeOptions_new(options_nodes(input.children, 1, [strip |-> NoBool, errors |-> <<>>]))

\* RecipeOptions::default()
DefaultOptions == [strip |-> NoBool]

HexDigits == "0123456789abcdefABCDEF"

char_at(s, i) == SubSeq(s, i, i)

is_hex(c) == \E i \in 1..Len(HexDigits) : char_at(HexDigits, i) = c

hex_value(c) ==
    LET i == CHOOSE j \in 1..Len(HexDigits) : char_at(HexDigits, j) = c
    IN IF i <= 16 THEN i - 1 ELSE i - 7

\* hex::decode: an error on an odd length and on a character that is no
\* hex digit, else one byte per two digits.
hex_decode(s) ==
    IF Len(s) % 2 = 1 \/ \E i \in 1..Len(s) : ~is_hex(char_at(s, i))
    THEN [ok |-> FALSE, bytes |-> <<>>]
    ELSE [ok |-> TRUE,
          bytes |-> [k \in 1..(Len(s) \div 2) |->
                       16 * hex_value(char_at(s, 2 * k - 1)) + hex_value(char_at(s, 2 * k))]]

\* match hex::decode(str_sha)
sha256_decoded(acc, decoded) ==
    IF ~decoded.ok THEN [acc EXCEPT !.errors = Append(@, "invalid hex string")]
    ELSE IF Len(decoded.bytes) # 32
    THEN [acc EXCEPT !.errors = Append(@, "expected 32 byte long hex string for sha256")]
    ELSE [acc EXCEPT !.sha256 = SomeOf(decoded.bytes)]

\* parse_string_into!(node, str_sha, ..); if let Some(str_sha) = str_sha
sha256_node(acc, res) ==
    IF res.ok THEN sha256_decoded(acc, hex_decode(res.value)) ELSE push_error(acc, res)

RECURSIVE verification_nodes(_, _, _)
verification_nodes(nodes, i, acc) ==
    IF i > Len(nodes) THEN acc
    ELSE verification_nodes(nodes, i + 1,
           IF nodes[i].name = "sha256"
           THEN sha256_node(acc, extract_single_string_value(nodes[i], "sha256"))
           ELSE acc)

Verification_new(acc) == Parsed([sha256 |-> acc.sha256], acc.errors)

\* Verification::parse_node_with_errors
Verification_parse(input) ==
    Verification_new(verification_nodes(input.children, 1,
                                        [sha256 |-> NoValue, errors |-> <<>>]))

\* The part of the string after the last of the character, the whole
\* string when it has none: rsplit(c).next()
rsplit_next(s, c) ==
    LET at == {i \in 1..Len(s) : char_at(s, i) = c}
        last == IF at = {} THEN 0 ELSE CHOOSE i \in at : \A j \in at : j <= i
    IN IF last = Len(s) THEN "" ELSE SubSeq(s, last + 1, Len(s))

\* The part of the string before the first of the character: split(c).next()
split_next(s, c) ==
    LET at == {i \in 1..Len(s) : char_at(s, i) = c}
        first == IF at = {} THEN Len(s) + 1 ELSE CHOOSE i \in at : \A j \in at : i <= j
    IN IF first = 1 THEN "" ELSE SubSeq(s, 1, first - 1)

\* One turn of the loop of FetchArtifact over input.nodes().
fetch_node(acc, node) ==
    CASE node.name = "url" ->
           parse_option_into(acc, "url", extract_single_string_value(node, "url of artifact"))
      [] node.name = "name" ->
           parse_option_into(acc, "file_name",
                             extract_single_string_value(node, "name of artifact"))
      [] OTHER -> acc

RECURSIVE fetch_nodes(_, _, _)
fetch_nodes(nodes, i, acc) ==
    IF i > Len(nodes) THEN acc ELSE fetch_nodes(nodes, i + 1, fetch_node(acc, nodes[i]))

\* let res = if let Some(url) = url { .. file_name.unwrap_or_else(..) }
FetchArtifact_new(acc) ==
    IF acc.url.some
    THEN Parsed([url |-> acc.url.v,
                 file_name |-> IF acc.file_name.some THEN acc.file_name.v
                               ELSE split_next(rsplit_next(acc.url.v, "/"), "?")],
                acc.errors)
    ELSE ParsedNone(Append(acc.errors, "fetch artifact requires an url to be given"))

\* FetchArtifact::parse_node_with_errors
FetchArtifact_parse(input) ==
    FetchArtifact_new(fetch_nodes(input.children, 1,
                                  [url |-> NoString, file_name |-> NoString, errors |-> <<>>]))

\* ArtifactSource::parse_node_with_errors
ArtifactSource_parse(input) ==
    IF input.name = "fetch" THEN FetchArtifact_parse(input)
    ELSE ParsedNone(<<"Unknown type of artifact">>)

Artifact_new(verification, source) ==
    IF source.some
    THEN Parsed([source |-> source.data, verification |-> verification.data],
                verification.errors \o source.errors)
    ELSE ParsedNone(verification.errors \o source.errors)

\* Artifact::parse_node_with_errors
Artifact_parse(input) == Artifact_new(Verification_parse(input), ArtifactSource_parse(input))

RECURSIVE artifacts_nodes(_, _, _)
artifacts_nodes(nodes, i, acc) ==
    IF i > Len(nodes) THEN acc
    ELSE artifacts_nodes(nodes, i + 1, push_parsed(acc, "data", Artifact_parse(nodes[i])))

Artifacts_new(acc) == Parsed(acc.data, acc.errors)

\* Vec::<Artifact>::parse_node_with_errors
Artifacts_parse(input) ==
    Artifacts_new(artifacts_nodes(input.children, 1, [data |-> <<>>, errors |-> <<>>]))

\* let mut errors = vec![]; a second time, after the name was parsed: the
\* list that holds the error of the name is not the one returned.
shadow(acc) == [acc EXCEPT !.errors = <<>>]

\* One turn of the loop of Side over input.nodes().
side_node(acc, node) ==
    CASE node.name = "description" ->
           parse_string_into(acc, "description",
                             extract_single_string_value(node, "side description"))
      [] node.name = "depends" ->
           parse_string_list_ext_into(acc, "depends",
                                      extract_string_values_with_extend(node, "side depends"))
      [] node.name = "claim" ->
           parse_string_list_ext_into(acc, "claims",
                                      extract_string_values_with_extend(node, "side claims"))
      [] OTHER -> acc

RECURSIVE side_nodes(_, _, _)
side_nodes(nodes, i, acc) ==
    IF i > Len(nodes) THEN acc ELSE side_nodes(nodes, i + 1, side_node(acc, nodes[i]))

Side_new(acc) ==
    Parsed([name |-> acc.name, description |-> acc.description, depends |-> acc.depends,
            claims |-> acc.claims], acc.errors)

\* Side::parse_node_with_errors
Side_parse(input, recipe_) ==
    Side_new(side_nodes(input.children, 1,
               shadow(parse_string_into([name |-> "", description |-> recipe_.description,
                                         depends |-> recipe_.depends, claims |-> <<>>,
                                         errors |-> <<>>],
                                        "name", extract_single_string_value(input, "name of side")))))

\* The stages a playbook can be stored under.
PlaybookKeys == {"Fetch", "Prepare", "Extract", "Configure", "Build", "Install"}

\* The names of the nodes of a recipe that are parsed into a playbook:
\* "install" | "prepare" | "build" | "extract" | "configure"
StageNodeNames == {"install", "prepare", "build", "extract", "configure"}

\* The locals of Recipe::parse_node_with_errors before its loop.
RecipeLocals ==
    [name |-> "<unnamed>", found_version |-> FALSE, version |-> "0.0.0", description |-> "",
     home |-> NoString, source_dir |-> NoString, options |-> [some |-> FALSE, v |-> DefaultOptions],
     license |-> <<>>, maintainers |-> <<>>, depends |-> <<>>, provides |-> <<>>,
     artifacts |-> <<>>, style |-> [some |-> FALSE, v |-> DefaultStyle],
     playbooks |-> [s \in PlaybookKeys |-> NoPlaybook], errors |-> <<>>]

\* errors.extend(err); playbooks.insert(playbook.stage, playbook)
playbooks_insert(acc, pb) ==
    IF pb.some
    THEN [acc EXCEPT !.playbooks[pb.data.stage] = [present |-> TRUE, actions |-> pb.data.actions],
                     !.errors = @ \o pb.errors]
    ELSE [acc EXCEPT !.errors = @ \o pb.errors]

\* One turn of the loop of Recipe over input.nodes(): the match on the
\* name of the node.
recipe_node(acc, node) ==
    CASE node.name = "version" ->
           parse_string_into([acc EXCEPT !.found_version = TRUE], "version",
                             extract_single_string_value(node, "version"))
      [] node.name = "description" ->
           parse_string_into(acc, "description", extract_single_string_value(node, "version"))
      [] node.name = "home" ->
           parse_option_into(acc, "home", extract_single_string_value(node, "version"))
      [] node.name = "source-dir" ->
           parse_option_into(acc, "source_dir", extract_single_string_value(node, "source-dir"))
      [] node.name = "depends" ->
           parse_string_list_ext_into(acc, "depends",
                                      extract_string_values_with_extend(node, "depends"))
      [] node.name = "provides" ->
           parse_string_list_ext_into(acc, "provides",
                                      extract_string_values_with_extend(node, "provides"))
      [] node.name = "license" ->
           parse_string_list_into(acc, "license", extract_string_values(node, "depends"))
      [] node.name = "maintainer" ->
           parse_string_list_into(acc, "maintainers", extract_string_values(node, "depends"))
      [] node.name = "artifacts" -> extend_parsed(acc, "artifacts", Artifacts_parse(node))
      [] node.name = "style" ->
           IF acc.style.some
           THEN [acc EXCEPT !.errors =
                   Append(@, "redefinition of style, can only have one build style")]
           ELSE set_parsed(acc, "style", BuildStyle_parse(node))
      [] node.name = "options" -> set_parsed(acc, "options", RecipeOptions_parse(node))
      [] node.name \in StageNodeNames -> playbooks_insert(acc, ActionPlaybook_parse(node))
      [] OTHER -> acc

RECURSIVE recipe_nodes(_, _, _)
recipe_nodes(nodes, i, acc) ==
    IF i > Len(nodes) THEN acc ELSE recipe_nodes(nodes, i + 1, recipe_node(acc, nodes[i]))

\* if !found_version { errors.push(.. "recipe missing version") }
missing_version(acc) ==
    IF acc.found_version THEN acc ELSE [acc EXCEPT !.errors = Append(@, "recipe missing version")]

\* let mut recipe = Recipe { .. }, of the locals after the loop
Recipe_new(acc) ==
    [name |-> acc.name, version |-> acc.version, revision |-> 0,
     source_dir |-> IF acc.source_dir.some THEN acc.source_dir.v
                    ELSE acc.name \o "-" \o acc.version,
     description |-> acc.description, home |-> acc.home, license |-> acc.license,
     maintainers |-> acc.maintainers, depends |-> acc.depends, provides |-> acc.provides,
     artifacts |-> acc.artifacts, style |-> acc.style.v, sides |-> <<>>,
     options |-> acc.options.v, playbooks |-> acc.playbooks]

\* The second loop over input.nodes(): the nodes named side, each parsed
\* with the recipe that has no sides yet.
RECURSIVE recipe_sides(_, _, _, _)
recipe_sides(nodes, i, recipe_, acc) ==
    IF i > Len(nodes) THEN acc
    ELSE recipe_sides(nodes, i + 1, recipe_,
           IF nodes[i].name = "side"
           THEN push_parsed(acc, "sides", Side_parse(nodes[i], recipe_))
           ELSE acc)

\* recipe.sides = sides; (Some(recipe), errors)
Recipe_with_sides(recipe_, acc) == Parsed([recipe_ EXCEPT !.sides = acc.sides], acc.errors)

Recipe_sides(input, recipe_, errs) ==
    Recipe_with_sides(recipe_, recipe_sides(input.children, 1, recipe_,
                                            [sides |-> <<>>, errors |-> errs]))

Recipe_after_loop(input, acc) == Recipe_sides(input, Recipe_new(acc), acc.errors)

\* Recipe::parse_node_with_errors
Recipe_parse(input) ==
    Recipe_after_loop(input,
      missing_version(recipe_nodes(input.children, 1,
                        parse_string_into(RecipeLocals, "name",
                                          extract_single_string_value(input, "name of recipe")))))

RECURSIVE document_nodes(_, _, _)
document_nodes(nodes, i, acc) ==
    IF i > Len(nodes) THEN acc
    ELSE document_nodes(nodes, i + 1,
           IF nodes[i].name = "recipe"
           THEN push_parsed(acc, "recipes", Recipe_parse(nodes[i]))
           ELSE acc)

Document_new(acc) == Parsed([recipes |-> acc.recipes], acc.errors)

\* Document::parse_document_with_errors
parse_document_with_errors(input) ==
    Document_new(document_nodes(input, 1, [recipes |-> <<>>, errors |-> <<>>]))

\* data.ok_or_else(|| HobParserCompoundError { .. })
ok_or_else(with_errors) ==
    [ok |-> with_errors.some, data |-> with_errors.data, errors |-> with_errors.errors]

\* Some(obj) if errors.is_empty() => Ok(obj), _ => Err(..)
ok_if_no_errors(with_errors) ==
    [ok |-> with_errors.some /\ with_errors.errors = <<>>, data |-> with_errors.data,
     errors |-> with_errors.errors]

\* ParseDocument::parse_document
parse_document(input) == ok_or_else(parse_document_with_errors(input))

\* ParseDocument::parse_document_strict
parse_document_strict(input) == ok_if_no_errors(parse_document_with_errors(input))

\* Action::Configure of execute_action: the program and its arguments.
configure_command(recipe_) ==
    [program |-> IF recipe_.style.vars.configure_script.some
                 THEN recipe_.style.vars.configure_script.v ELSE "./configure",
     args |-> <<"--prefix=/usr">> \o (IF recipe_.style.vars.configure_args.some
                                      THEN recipe_.style.vars.configure_args.v ELSE <<>>)]

(***************************************************************************)
(* hob-utils/src/lib.rs, hob-derive/src/lib.rs: ObjectTraversal, and the   *)
(* ObjectWalker of main.rs, TemplateReplace.                               *)
(***************************************************************************)

\* Recipe::template_vars: the value of each name a template can use.
template_vars(recipe_) ==
    [self_ref |-> recipe_.name \o "-" \o recipe_.version \o "-r0", name |-> recipe_.name,
     version |-> recipe_.version, description |-> recipe_.description, revision |-> "0"]

\* The value of an expression of a template; a name that is no variable
\* renders as nothing.
template_value(name, tvars) ==
    CASE name = "self-ref" -> tvars.self_ref
      [] name = "name" -> tvars.name
      [] name = "version" -> tvars.version
      [] name = "description" -> tvars.description
      [] name = "revision" -> tvars.revision
      [] OTHER -> ""

\* Handlebars::render_template on a template whose expressions are closed
\* and the values of whose variables need no HTML escape: the text, with
\* each {{name}} replaced by the value of the name.
RECURSIVE render_template(_, _, _)
render_template(s, i, tvars) ==
    IF i > Len(s) THEN ""
    ELSE IF i < Len(s) /\ SubSeq(s, i, i + 1) = "{{"
    THEN LET close == CHOOSE j \in (i + 2)..(Len(s) - 1) :
                         /\ SubSeq(s, j, j + 1) = "}}"
                         /\ \A k \in (i + 2)..(j - 1) : SubSeq(s, k, k + 1) # "}}"
         IN template_value(SubSeq(s, i + 2, close - 1), tvars)
              \o render_template(s, close + 2, tvars)
    ELSE char_at(s, i) \o render_template(s, i + 1, tvars)

\* The walker: the variables of TemplateReplace, and the history of the
\* values enter_string was called on.
Walker(tvars) == [vars |-> tvars, entered |-> <<>>]

\* What a traverse leaves: the value and the walker.
Walked(v, w) == [v |-> v, w |-> w]

\* impl ObjectWalker for TemplateReplace: enter_string
enter_string(value, w) ==
    Walked(render_template(value, 1, w.vars), [w EXCEPT !.entered = Append(@, value)])

\* A traverse of a String that does not call the walker.
String_skip(value, w) == Walked(value, w)

\* impl ObjectTraversal for String
String_traverse(value, w) == enter_string(value, w)

\* impl ObjectTraversal for Vec<T>, T = String: for item in self
RECURSIVE Vec_traverse(_, _, _)
Vec_traverse(vec, i, w) ==
    IF i > Len(vec) THEN Walked(vec, w)
    ELSE LET item == String_traverse(vec[i], w)
         IN Vec_traverse([vec EXCEPT ![i] = item.v], i + 1, item.w)

\* Some(v) of what the traverse of v left.
some_walked(x) == Walked(SomeOf(x.v), x.w)

\* impl ObjectTraversal for Option<T>, T = String and T = Vec<String>
Option_traverse(opt, w) ==
    IF opt.some THEN some_walked(String_traverse(opt.v, w)) ELSE Walked(opt, w)

OptionVec_traverse(opt, w) ==
    IF opt.some THEN some_walked(Vec_traverse(opt.v, 1, w)) ELSE Walked(opt, w)

\* self.#name.traverse(walker), the statement derive(ObjectTraversal) makes
\* for a field: x is the struct and the walker, r what the traverse of
\* the field left.
field_walked(x, name, r) == Walked([x.v EXCEPT ![name] = r.v], r.w)

\* The statement for a field that is a String, a Vec<String>, an
\* Option<String> and an Option<Vec<String>>.
field_string(x, name) == field_walked(x, name, String_traverse(x.v[name], x.w))
field_vec(x, name) == field_walked(x, name, Vec_traverse(x.v[name], 1, x.w))
field_option(x, name) == field_walked(x, name, Option_traverse(x.v[name], x.w))
field_option_vec(x, name) == field_walked(x, name, OptionVec_traverse(x.v[name], x.w))

\* derive(ObjectTraversal) for FetchArtifact: url, file_name
FetchArtifact_traverse(source, w) ==
    field_string(field_string(Walked(source, w), "url"), "file_name")

\* derive(ObjectTraversal) for Artifact and ArtifactSource: source, whose
\* one variant is Fetch; verification has #[skip].
Artifact_traverse(artifact, w) ==
    field_walked(Walked(artifact, w), "source", FetchArtifact_traverse(artifact.source, w))

\* derive(ObjectTraversal) for Side: name, description, depends, claims
Side_traverse(side, w) ==
    field_vec(field_vec(field_string(field_string(Walked(side, w), "name"), "description"),
                        "depends"), "claims")

\* derive(ObjectTraversal) for Action and the structs of its variants: the
\* list of Cc, Bin, Man, Link, Rm and Dir, then the output of Cc and the
\* target of Link; the variants without fields have nothing to enter.
Action_traverse(action, w) ==
    IF action.kind \in {"Cc", "Link"}
    THEN field_string(field_vec(Walked(action, w), "args"), "output")
    ELSE IF action.kind \in {"Bin", "Man", "Rm", "Dir"}
    THEN field_vec(Walked(action, w), "args")
    ELSE Walked(action, w)

Item_traverse(type, item, w) ==
    CASE type = "Artifact" -> Artifact_traverse(item, w)
      [] type = "Side" -> Side_traverse(item, w)
      [] type = "Action" -> Action_traverse(item, w)

\* vec with its item at i replaced by what the traverse of the item left.
item_walked(vec, i, r) == Walked([vec EXCEPT ![i] = r.v], r.w)

\* impl ObjectTraversal for Vec<T>, T = Artifact, Side and Action
RECURSIVE Items_traverse(_, _, _)
Items_traverse(type, x, i) ==
    IF i > Len(x.v) THEN x
    ELSE Items_traverse(type, item_walked(x.v, i, Item_traverse(type, x.v[i], x.w)), i + 1)

field_items(x, name, type) ==
    field_walked(x, name, Items_traverse(type, Walked(x.v[name], x.w), 1))

\* derive(ObjectTraversal) for BuildStyleVariables: of its fields, the two
\* variables the parser sets.
BuildStyleVariables_traverse(vars_, w) ==
    field_option_vec(field_option(Walked(vars_, w), "configure_script"), "configure_args")

\* derive(ObjectTraversal) for BuildStyle: style has #[skip]
BuildStyle_traverse(style, w) ==
    field_walked(Walked(style, w), "vars", BuildStyleVariables_traverse(style.vars, w))

field_style(x, name) == field_walked(x, name, BuildStyle_traverse(x.v[name], x.w))

\* The order the entries of the HashMap are drained in is not specified;
\* the walker enters the same strings in any order.
DrainOrder == <<"Prepare", "Fetch", "Extract", "Configure", "Build", "Install">>

\* derive(ObjectTraversal) for ActionPlaybook: stage, that has nothing to
\* enter, and actions.
ActionPlaybook_traverse(pb, w) == field_items(Walked(pb, w), "actions", "Action")

\* impl ObjectTraversal for HashMap<K, V>, K = Stage, V = ActionPlaybook:
\* the key has nothing to enter, and no two keys become equal.
RECURSIVE HashMap_traverse(_, _)
HashMap_traverse(x, i) ==
    IF i > Len(DrainOrder) THEN x
    ELSE HashMap_traverse(IF x.v[DrainOrder[i]].present
                          THEN field_walked(x, DrainOrder[i],
                                            ActionPlaybook_traverse(x.v[DrainOrder[i]], x.w))
                          ELSE x,
                          i + 1)

field_map(x, name) == field_walked(x, name, HashMap_traverse(Walked(x.v[name], x.w), 1))

\* derive(ObjectTraversal) for Recipe: the fields in the order of the
\* struct; revision and options hold no String.
Recipe_traverse(recipe_, w) ==
    field_map(
      field_items(
        field_style(
          field_items(
            field_vec(field_vec(field_vec(field_vec(
              field_option(
                field_string(field_string(field_string(field_string(
                  Walked(recipe_, w), "name"), "version"), "source_dir"), "description"),
                "home"),
              "license"), "maintainers"), "depends"), "provides"),
            "artifacts", "Artifact"),
          "style"),
        "sides", "Side"),
      "playbooks")

(***************************************************************************)
(* main.rs: the document is parsed, its errors are printed, its recipes    *)
(* are traversed with TemplateReplace and the first is built. The KDL      *)
(* documents below stand for the text given to the parser.                 *)
(***************************************************************************)

string_node(name, s) == Node(name, <<Arg(Str(s))>>, <<>>)
strings_node(name, a, b) == Node(name, <<Arg(Str(a)), Arg(Str(b))>>, <<>>)
extends_node(name, e, s) == Node(name, <<Prop("extends", Bool(e)), Arg(Str(s))>>, <<>>)
block_node(name, s, children) == Node(name, <<Arg(Str(s))>>, children)

\* No version node, a version, and a version node without a string.
VersionNodes == {<<>>, <<string_node("version", "1.2")>>, <<Node("version", <<>>, <<>>)>>}

DescriptionNodes == {<<>>, <<string_node("description", "libc of {{name}}")>>}

DependsNodes == {<<>>, <<string_node("depends", "make")>>,
                 <<string_node("depends", "make"), extends_node("depends", FALSE, "gcc")>>}

SidePool ==
    <<block_node("side", "dev", <<>>),
      block_node("side", "doc", <<string_node("description", "manual of {{self-ref}}"),
                                  string_node("depends", "man"),
                                  string_node("claim", "usr/share/man/*")>>),
      block_node("side", "static", <<extends_node("depends", FALSE, "ar")>>),
      block_node("side", "libs", <<Node("depends", <<Prop("extends", Bool(TRUE)),
                                                    Arg(Str("ld")), Arg(Str("as"))>>, <<>>),
                                   strings_node("claim", "usr/lib/*", "lib/*")>>),
      Node("side", <<>>, <<string_node("depends", "sh")>>),
      block_node("side", "late", <<Node("depends", <<Arg(Str("cc")),
                                                    Prop("extends", Bool(FALSE))>>, <<>>)>>),
      block_node("side", "odd", <<Node("description", <<Arg(Number)>>, <<>>),
                                  string_node("depends", "awk"),
                                  extends_node("depends", TRUE, "sed")>>)>>

StylePool ==
    {<<>>,
     <<block_node("style", "configure",
                  <<string_node("configure-script", "./autogen.sh"),
                    strings_node("configure-args", "--enable-shared", "--host={{name}}")>>)>>,
     <<block_node("style", "gnu-configure",
                  <<extends_node("configure-args", FALSE, "--disable-nls")>>)>>,
     <<block_node("style", "configure", <<>>)>>,
     <<block_node("style", "meson", <<string_node("configure-script", "./setup")>>)>>,
     <<block_node("style", "noop", <<>>)>>,
     <<block_node("style", "configure", <<>>), block_node("style", "noop", <<>>)>>}

StagePool ==
    <<Node("prepare", <<>>, <<string_node("dir", "obj"), string_node("link", "obj"),
                              Node("cc", <<Prop("output", Str("obj/a.o"))>>, <<>>)>>),
      Node("fetch", <<>>, <<Node(".default", <<>>, <<>>)>>),
      Node("extract", <<>>, <<Node(".default", <<>>, <<>>), string_node("rm", "{{self-ref}}.tar")>>),
      Node("configure", <<>>, <<Node("cc", <<Prop("output", Str("conf")), Arg(Str("conf.c"))>>, <<>>),
                                Node(".default", <<>>, <<>>)>>),
      Node("build", <<>>, <<Node("make", <<>>, <<>>), Node("ninja", <<>>, <<>>),
                            Node("make-install", <<>>, <<>>)>>),
      Node("install", <<>>, <<Node("cc", <<Arg(Str("ld.c"))>>, <<>>), Node(".default", <<>>, <<>>),
                              strings_node("link", "libc.so", "ld.so"), string_node("bin", "ldd"),
                              string_node("man", "ld.1")>>),
      Node("install", <<>>, <<Node(".default", <<>>, <<>>)>>),
      Node("package", <<>>, <<Node("make", <<>>, <<>>)>>)>>

MaxStageNodes == 2

Sha256Hex == "00112233445566778899aabbccddeeff00112233445566778899AABBCCDDEEFF"

ArtifactsNode ==
    Node("artifacts", <<>>,
         <<Node("fetch", <<>>, <<string_node("url", "https://musl.libc.org/{{self-ref}}.tar.gz?dl=1"),
                                 string_node("sha256", Sha256Hex)>>),
           Node("fetch", <<>>, <<string_node("url", "https://musl.libc.org/x"),
                                 string_node("name", "x.tar"), string_node("sha256", "0g")>>),
           Node("fetch", <<>>, <<string_node("sha256", "00ff")>>),
           Node("git", <<>>, <<>>),
           Node("fetch", <<>>, <<string_node("url", "https://musl.libc.org/y.tar"),
                                 string_node("sha256", "00ff")>>)>>)

\* The nodes of a recipe that set the rest of its fields.
OtherNodes ==
    <<string_node("home", "https://musl.libc.org"), string_node("source-dir", "src"),
      strings_node("license", "MIT", "BSD"), string_node("maintainer", "{{name}} team"),
      string_node("provides", "libc"), ArtifactsNode,
      Node("options", <<>>, <<Node("strip", <<Arg(Bool(FALSE))>>, <<>>)>>),
      Node("comment", <<>>, <<>>)>>

recipe_document(children) == <<block_node("recipe", "musl", children)>>

\* Recipes with sides: the version, the description and the depends of the
\* recipe vary, and the sides are before or after them.
SideDocuments ==
    {recipe_document(IF before THEN s \o v \o d \o p ELSE v \o d \o p \o s) :
       <<v, d, p, s, before>> \in VersionNodes \X DescriptionNodes \X DependsNodes
                                    \X SeqsUpTo(Range(SidePool), MaxSides) \X BOOLEAN}

\* Recipes with a style and stage nodes.
StyleDocuments ==
    {recipe_document(v \o y \o g) :
       <<v, y, g>> \in {vn \in VersionNodes : Len(vn) = 0 \/ vn[1].entries # <<>>} \X StylePool
                          \X SeqsUpTo(Range(StagePool), MaxStageNodes)}

\* No recipe, a node that is no recipe, a recipe without a name, recipes
\* with every other node, one with every kind of node, and two recipes.
OtherDocuments ==
    {<<>>, <<Node("package", <<>>, <<>>)>>, <<Node("recipe", <<>>, <<>>)>>,
     recipe_document(<<string_node("version", "1.2")>> \o OtherNodes),
     recipe_document(OtherNodes),
     recipe_document(<<string_node("version", "1.2"), string_node("description", "libc")>>
                     \o OtherNodes \o <<SidePool[2], SidePool[4], StagePool[4], StagePool[6]>>
                     \o <<block_node("style", "configure",
                                     <<string_node("configure-args", "--enable-shared")>>)>>),
     <<block_node("recipe", "musl", <<>>), block_node("recipe", "zlib", <<string_node("version", "1.3")>>)>>,
     <<Node("recipe", <<Arg(Number)>>, <<>>), block_node("recipe", "zlib", <<block_node("side", "dev", <<>>)>>)>>}

Documents == SideDocuments \cup StyleDocuments \cup OtherDocuments

InitParse ==
    /\ recipe = [style |-> "Noop", sides |-> 0, artifacts |-> 0]
    /\ state = [stage |-> "Prepare", artifacts |-> <<>>, collected |-> FALSE]
    /\ pc = "loop"
    /\ EngineIdle
    /\ document \in Documents
    /\ parser = ParseNotRun
    /\ IdleBut("parse")

ParseFrame ==
    UNCHANGED <<recipe, playbook, state, stage_iter, pc, hook_iter, player, kvars,
                result, fs, log, hooks_run, played, failed_step, cache, fetches,
                server, errors, xvars, evars, cvars, svars, pvars, document, files>>

\* What a parser returned to its caller: Ok or Err, the recipes of the
\* document of Ok and the errors of Err.
returned(self, at, r) ==
    [self EXCEPT !.pc = at, !.ok = r.ok, !.recipes = IF r.ok THEN r.data.recipes ELSE <<>>,
                 !.errors = IF r.ok THEN <<>> ELSE r.errors]

\* Document::parse_document(&kdl_document, ..)
ParseDocument ==
    /\ parser.pc = "idle"
    /\ parser' = returned(parser, "parse_document", parse_document(document))
    /\ ParseFrame

\* Document::parse_document_strict(&kdl_document, ..)
ParseDocumentStrict ==
    /\ parser.pc = "idle"
    /\ parser' = returned(parser, "parse_document_strict", parse_document_strict(document))
    /\ ParseFrame

\* let (document, errors) = ..: the document is always Some
with_errors(self, r) ==
    [self EXCEPT !.pc = "parsed", !.ok = r.some, !.recipes = r.data.recipes, !.errors = r.errors]

\* main: let (document, errors) = Document::parse_document_with_errors(..)
ParseDocumentWithErrors ==
    /\ parser.pc = "idle"
    /\ parser' = with_errors(parser, parse_document_with_errors(document))
    /\ ParseFrame

\* y.traverse(&mut TemplateReplace { vars: y.template_vars(), .. })
traversed(recipe_) == Recipe_traverse(recipe_, Walker(template_vars(recipe_)))

\* main: x.recipes.iter_mut().for_each(|y| ..)
Traverse ==
    /\ parser.pc = "parsed"
    /\ parser' = [parser EXCEPT !.pc = "traversed", !.parsed = parser.recipes,
                                !.recipes = [i \in DOMAIN parser.recipes |->
                                               traversed(parser.recipes[i]).v],
                                !.entered = [i \in DOMAIN parser.recipes |->
                                               traversed(parser.recipes[i]).w.entered]]
    /\ ParseFrame

\* main: engine.build_recipe(&doc.recipes[0]); the index panics on a
\* document without a recipe.
BuildFirst ==
    /\ parser.pc = "traversed"
    /\ parser' = IF parser.recipes = <<>> THEN [parser EXCEPT !.pc = "panicked"]
                ELSE [parser EXCEPT !.pc = "build_recipe", !.handed = <<parser.recipes[1]>>]
    /\ ParseFrame

\* The recipe's Configure stage is played by the default of its style, the
\* stage has no playbook or its playbook has a .default action.
RunsConfigure(recipe_) ==
    /\ recipe_.style.style \in {"Configure", "GnuConfigure"}
    /\ \/ ~recipe_.playbooks["Configure"].present
       \/ \E i \in DOMAIN recipe_.playbooks["Configure"].actions :
            recipe_.playbooks["Configure"].actions[i].kind = "Default"

\* execute_action, Action::Configure, on the recipe that was handed to
\* build_recipe, when the stages before Configure have succeeded.
Configure ==
    /\ parser.pc = "build_recipe"
    /\ RunsConfigure(parser.handed[1])
    /\ parser' = [parser EXCEPT !.pc = "configure", !.command = <<configure_command(parser.handed[1])>>]
    /\ ParseFrame

NextParse ==
    \/ ParseDocument
    \/ ParseDocumentStrict
    \/ ParseDocumentWithErrors
    \/ Traverse
    \/ BuildFirst
    \/ Configure

SpecParse == InitParse /\ [][NextParse]_vars

(***************************************************************************)
(* utils/mod.rs: FileWalker, with and without directories, and a caller    *)
(* that calls next until it returns None or an error.                      *)
(***************************************************************************)

\* The roots a caller pushes: none, the recipe's dest directory, and the
\* side's after it.
RootLists == {<<>>, <<dest_path_for_recipe>>, <<dest_path_for_recipe, dest_path_for_side(1)>>}

InitWalk ==
    /\ recipe = [style |-> "Noop", sides |-> 1, artifacts |-> 0]
    /\ state = [stage |-> "Install", artifacts |-> <<>>, collected |-> FALSE]
    /\ pc = "after"
    /\ EngineIdle
    /\ tree \in DestTrees(1)
    /\ pin = PinNotRun
    /\ split = SplitNotRun
    /\ files = FilesNotRun
    /\ IdleBut("walk")

WalkFrame ==
    UNCHANGED <<recipe, playbook, state, stage_iter, pc, hook_iter, player, kvars,
                result, fs, log, hooks_run, played, failed_step, cache, fetches,
                server, errors, xvars, evars, cvars, svars, pvars, gvars>>

\* What files.next().await? gave the caller: an entry, None or an error.
yield(w, entry) == [w EXCEPT !.pc = "ready", !.yielded = Append(@, entry)]
none(w) == [w EXCEPT !.pc = "done", !.result = Ok]
failed(w) == [w EXCEPT !.pc = "failed", !.result = Err("io")]

\* FileWalker::new(path): omit_directories: true, stack: vec![read_dir(path)?]
WalkNew ==
    /\ files.pc = "idle"
    /\ \E path \in {dest_path_for_recipe, dest_path_for_side(1)} :
       \E ok \in {b \in BOOLEAN : b => can_read_dir(tree, path)} :
         files' = IF ok
                  THEN [files EXCEPT !.pc = "ready", !.omit_directories = TRUE,
                                     !.roots = <<path>>, !.stack = <<read_dir(tree, path)>>]
                  ELSE failed([files EXCEPT !.roots = <<path>>])
    /\ WalkFrame

\* FileWalker::empty(with_directories): omit_directories: !with_directories
WalkEmpty ==
    /\ files.pc = "idle"
    /\ \E with_directories \in BOOLEAN :
         files' = [files EXCEPT !.pc = "push", !.omit_directories = ~with_directories]
    /\ WalkFrame

\* FileWalker::push(path): self.stack.push(read_dir(path).await?)
WalkPush ==
    /\ files.pc = "push"
    /\ \E roots \in RootLists :
         /\ Len(roots) = Len(files.roots) + 1
         /\ SubSeq(roots, 1, Len(files.roots)) = files.roots
         /\ LET path == roots[Len(roots)]
            IN \E ok \in {b \in BOOLEAN : b => can_read_dir(tree, path)} :
                 files' = IF ok
                          THEN [files EXCEPT !.roots = roots,
                                             !.stack = Append(@, read_dir(tree, path))]
                          ELSE failed([files EXCEPT !.roots = roots])
    /\ WalkFrame

\* The caller has pushed its roots and calls files.next().
WalkNext ==
    /\ files.pc \in {"push", "ready"}
    /\ files' = [files EXCEPT !.pc = "next"]
    /\ WalkFrame

\* next: the stack is empty: return Ok(None)
NextNone ==
    /\ files.pc = "next"
    /\ files.stack = <<>>
    /\ files' = none(files)
    /\ WalkFrame

\* next: top.next_entry() is None: self.stack.pop(); continue
NextPop ==
    /\ files.pc = "next"
    /\ files.stack # <<>>
    /\ files.stack[Len(files.stack)].rest = {}
    /\ files' = [files EXCEPT !.stack = SubSeq(@, 1, Len(@) - 1)]
    /\ WalkFrame

\* next: top.next_entry() is an entry, in the order the directory gives
\* them: an entry that is no directory is returned; a directory is read and
\* pushed, and returned unless directories are omitted. next_entry,
\* file_type and read_dir can return an error.
NextEntry ==
    /\ files.pc = "next"
    /\ files.stack # <<>>
    /\ \E entry \in files.stack[Len(files.stack)].rest :
         LET taken == [files EXCEPT !.stack[Len(files.stack)].rest = @ \ {entry}]
             pushed == [taken EXCEPT !.stack = Append(@, read_dir(tree, entry))]
         IN \/ files' = failed(taken)
            \/ files' = IF ~is_dir(tree, entry) THEN yield(taken, entry)
                        ELSE IF ~files.omit_directories THEN yield(pushed, entry)
                        ELSE pushed
    /\ WalkFrame

NextWalk ==
    \/ WalkNew
    \/ WalkEmpty
    \/ WalkPush
    \/ WalkNext
    \/ NextNone
    \/ NextPop
    \/ NextEntry

\* Every call the caller makes returns: a step that can be taken is taken.
SpecWalk == InitWalk /\ [][NextWalk]_vars /\ WF_vars(NextWalk)

(***************************************************************************)
(* Properties of build_recipe, run_hooks and play (checked under Spec).    *)
(***************************************************************************)
\* The canonical stage order the specification states.
CanonicalOrder == <<"Prepare", "Fetch", "Extract", "Configure", "Build", "Install", "Split", "Package">>

CanonicalPos(s) == CHOOSE k \in 1..Len(CanonicalOrder) : CanonicalOrder[k] = s

IsBodyStart(e) == e.ev = "body_start"

\* The stages whose body has begun, in the order they began.
BodiesBegun == [i \in 1..Len(SelectSeq(log, IsBodyStart)) |-> SelectSeq(log, IsBodyStart)[i].stage]

IsPrefix(p, q) == Len(p) <= Len(q) /\ \A i \in 1..Len(p) : p[i] = q[i]

\* C1: the stage bodies begin in the order Prepare, Fetch, Extract, Configure,
\* Build, Install, Split, Package, none of them twice, and when the body of a
\* stage begins the body of every earlier stage has completed and every hook
\* registered for an earlier stage has run.
C1_StageOrder ==
    /\ IsPrefix(BodiesBegun, CanonicalOrder)
    /\ \A i \in 1..Len(log) :
         log[i].ev = "body_start" =>
           \A k \in 1..(CanonicalPos(log[i].stage) - 1) :
             /\ \E j \in 1..(i - 1) : log[j] = BodyEnd(CanonicalOrder[k])
             /\ \A n \in 1..Len(HOOKS) :
                  HOOKS[n].stage = CanonicalOrder[k] =>
                    \E j \in 1..(i - 1) : log[j] = HookEvent(HOOKS[n])

\* All eight bodies have run and build_recipe returned Ok.
C1_Witness == pc = "done" /\ result = Ok /\ BodiesBegun = CanonicalOrder

\* C2: a hook registered for (stage, Before) never runs once the body of that
\* stage has begun, every such hook has run when the body begins, and a hook
\* registered for (stage, After) runs only after the body of that stage has
\* completed with Ok.
C2_HooksAroundBody ==
    /\ \A i \in 1..Len(log) :
         /\ (log[i].ev = "hook" /\ log[i].trigger = "Before") =>
              \A j \in 1..(i - 1) : log[j] # BodyStart(log[i].stage)
         /\ (log[i].ev = "hook" /\ log[i].trigger = "After") =>
              \E j \in 1..(i - 1) : log[j] = BodyEnd(log[i].stage)
         /\ log[i].ev = "body_start" =>
              \A n \in 1..Len(HOOKS) :
                (HOOKS[n].stage = log[i].stage /\ HOOKS[n].trigger = "Before") =>
                  \E j \in 1..(i - 1) : log[j] = HookEvent(HOOKS[n])

\* The Package body began after its Before hooks; Install's After hooks ran.
C2_Witness ==
    /\ \E i \in 1..Len(log) : log[i] = BodyStart("Package")
    /\ \E i \in 1..Len(log) : log[i] = HookEvent(PinTimestamps)
    /\ \E i \in 1..Len(log) : log[i] = HookEvent(StripBinaries)

\* The registered hooks with key (s, t), as positions in the registry.
Registered(s, t) == {n \in 1..Len(HOOKS) : HOOKS[n].stage = s /\ HOOKS[n].trigger = t}

\* Lower priority first, equal priorities in registration order.
RunsBefore(m, n) ==
    \/ HOOKS[m].prio < HOOKS[n].prio
    \/ HOOKS[m].prio = HOOKS[n].prio /\ m < n

\* The names of the hooks with key (s, t) in the order the claim states.
ExpectedHooks(s, t) ==
    LET R == Registered(s, t)
        q == CHOOSE f \in [1..Cardinality(R) -> R] :
               \A a, b \in 1..Cardinality(R) : a < b => RunsBefore(f[a], f[b])
    IN [i \in 1..Cardinality(R) |-> HOOKS[q[i]].name]

\* C3: a run_hooks(stage, trigger) call runs hooks registered for (stage,
\* trigger) only, lower priority first and equal priorities in registration
\* order, stopping at the first that fails; a call that returns Ok has run
\* all of them. After Install that is CollectElf, StripBinaries; before
\* Package it is FixPermissions, PinTimestamps.
C3_HookOrder ==
    /\ pc = "before" => IsPrefix(hooks_run, ExpectedHooks(state.stage, "Before"))
    /\ pc = "body" => hooks_run = ExpectedHooks(state.stage, "Before")
    /\ pc = "after" => IsPrefix(hooks_run, ExpectedHooks(state.stage, "After"))
    /\ (pc \in {"loop", "done"} /\ stage_iter > 1) => hooks_run = ExpectedHooks(state.stage, "After")
    /\ (pc = "loop" /\ stage_iter > 1 /\ state.stage = "Install") =>
         hooks_run = <<"CollectElf", "StripBinaries">>
    /\ (pc = "body" /\ state.stage = "Package") =>
         hooks_run = <<"FixPermissions", "PinTimestamps">>

\* Both Before hooks of Package have run and its body has begun.
C3_Witness ==
    /\ pc = "body"
    /\ state.stage = "Package"
    /\ hooks_run = <<"FixPermissions", "PinTimestamps">>

\* C4: once a hook, a stage body or an action has returned an error,
\* build_recipe has returned that error, nothing further is run, and no
\* step ever removes an effect made on the file system or resets what
\* BuildState has collected.
C4_FailureAborts ==
    /\ [](failed_step # "none" => (pc = "failed" /\ result = Err(failed_step)))
    /\ [][failed_step # "none" => UNCHANGED <<log, hooks_run, played, fs, state, player>>]_vars
    /\ [][/\ fs \subseteq fs'
          /\ state.collected => state'.collected
          /\ IsPrefix(state.artifacts, state'.artifacts)]_vars

\* An After hook failed after earlier stages had left their effects.
C4_Witness ==
    /\ pc = "failed"
    /\ failed_step = "hook"
    /\ state.stage = "Install"
    /\ "action_effects" \in fs
    /\ "cache_dir" \in fs

RECURSIVE CountDefault(_)
CountDefault(pb) ==
    IF pb = <<>> THEN 0
    ELSE (IF Head(pb) = "Default" THEN 1 ELSE 0) + CountDefault(Tail(pb))

IsDefaultStart(e) == e.ev = "default_start"
IsDefaultEnd(e) == e.ev = "default_end"
IsPlaybookAction(e) == e.ev = "action"

\* How often the default body was entered, and completed, by this play call.
DefaultBegun == Len(SelectSeq(played, IsDefaultStart))
DefaultCompleted == Len(SelectSeq(played, IsDefaultEnd))

\* C5: in a play call the default body is never entered twice; with one
\* Default in the playbook a play that returns Ok has run the default body
\* once and returns true; with no Default the default body is never entered,
\* a play that returns Ok has run every action of the playbook and returns
\* false; with two or more Default play never returns Ok, and once its
\* second Default is reached it has failed with ".default called twice".
\* (An action or default body that fails ends play with that error.)
C5_DefaultOnce ==
    player.pc # "idle" =>
      LET n == CountDefault(player.pb) IN
        /\ DefaultBegun <= 1
        /\ n = 0 => DefaultBegun = 0
        /\ (n = 0 /\ player.ret = Ok) =>
              /\ player.value = FALSE
              /\ Len(SelectSeq(played, IsPlaybookAction)) = Len(player.pb)
        /\ (n = 1 /\ player.ret = Ok) =>
              /\ player.value = TRUE
              /\ DefaultBegun = 1
              /\ DefaultCompleted = 1
        /\ n = 1 => player.ret.err # "default_twice"
        /\ n >= 2 => player.ret # Ok
        /\ (n >= 2 /\ player.ret # Running) =>
              player.ret.err \in {"default_twice", "execute_action", "fetch", "extract"}
        /\ player.ret.err = "default_twice" => (n >= 2 /\ DefaultCompleted = 1)
        /\ player.ret # Running => (player.ret = Ok \/ pc = "failed")

\* A playbook with two Default: the default body ran once, then play failed.
C5_Witness ==
    /\ CountDefault(player.pb) >= 2
    /\ player.ret = Err("default_twice")
    /\ DefaultBegun = 1

\* The playbook play works on according to the claim.
EffectivePlaybook == IF playbook.present THEN playbook.actions ELSE <<"Default">>

NotStyleAction(e) == e.ev # "style_action"

RECURSIVE ExpectedPlay(_, _, _)
\* What play runs on playbook pb from position i on (seen: a Default passed).
ExpectedPlay(pb, i, seen) ==
    IF i > Len(pb) THEN <<>>
    ELSE IF pb[i] = "Default"
    THEN IF seen THEN <<>>
         ELSE <<Played("default_start", i, "Default"), Played("default_end", 0, "Default")>>
              \o ExpectedPlay(pb, i + 1, TRUE)
    ELSE <<Played("action", i, pb[i])>> \o ExpectedPlay(pb, i + 1, seen)

\* C6: play runs the playbook of state.stage in list order, the default body
\* in the place of Default: what it has run so far is always a beginning of
\* [actions before Default, default body begun, default body completed,
\* actions after Default], and all of it when play returns Ok; a stage
\* without playbook is played as the playbook [Default].
C6_PlayOrder ==
    ((pc = "body" /\ player.pc # "idle") \/ (pc = "after" /\ state.stage \in PlayStages)) =>
      LET ran == SelectSeq(played, NotStyleAction)
          expected == ExpectedPlay(EffectivePlaybook, 1, FALSE)
      IN /\ IsPrefix(ran, expected)
         /\ player.ret = Ok => ran = expected
         /\ \A i \in 1..Len(played) :
              played[i].ev = "style_action" =>
                /\ \E j \in 1..(i - 1) : played[j].ev = "default_start"
                /\ \A j \in 1..(i - 1) : played[j].ev # "default_end"

\* An action on each side of Default, all three run in order.
C6_Witness ==
    /\ playbook = [present |-> TRUE, actions |-> <<"Cc", "Default", "Cc">>]
    /\ player.ret = Ok
    /\ played = <<Played("action", 1, "Cc"), Played("default_start", 2, "Default"),
                  Played("default_end", 0, "Default"), Played("action", 3, "Cc")>>

\* A stage without playbook whose default body has run.
C6_WitnessNoPlaybook ==
    /\ ~playbook.present
    /\ player.ret = Ok
    /\ DefaultCompleted = 1

(***************************************************************************)
(* Properties of Fetcher::fetch (checked under SpecFetch).                 *)
(***************************************************************************)
Done(id) == fetches[id].pc = "done"

VerificationFailed == Err("VerificationFailed")

\* The file a finished fetch found at its cache path disagrees with the
\* digest the artifact states.
FoundStale(id) ==
    /\ fetches[id].cached.exists
    /\ fetches[id].artifact.sha256.some
    /\ Sha256(fetches[id].cached.data) # fetches[id].artifact.sha256.digest

\* C7: after a fetch of A into an empty cache returned Ok, a second fetch of A
\* makes no HTTP request, leaves the cache file as it is and returns Ok
\* with the same path.
C7_CacheReuse ==
    \A i, j \in FetchIds :
      (/\ i < j
       /\ Done(i)
       /\ Done(j)
       /\ ~fetches[i].cached.exists
       /\ fetches[i].result = Ok
       /\ fetches[j].artifact = fetches[i].artifact) =>
         /\ fetches[j].requests = 0
         /\ ~fetches[j].wrote
         /\ cache[fetches[j].path] = fetches[j].cached
         /\ fetches[j].result = Ok
         /\ fetches[j].path = fetches[i].path

StreamedWrong(id) ==
    /\ ~fetches[id].cached.exists
    /\ fetches[id].complete
    /\ fetches[id].artifact.sha256.some
    /\ Sha256(fetches[id].streamed) # fetches[id].artifact.sha256.digest

Started(id) == fetches[id].pc # "idle"

SameSource(a, b) == method_name(a) = method_name(b) /\ hash_data(a) = hash_data(b)

\* C10 as stated: two artifacts with the same method and url have the same
\* hash_id and the same cache path, whatever their other fields.
C10_SameSlot ==
    \A i, j \in FetchIds :
      (Started(i) /\ Started(j) /\ SameSource(fetches[i].artifact, fetches[j].artifact)) =>
        /\ hash_id(fetches[i].artifact) = hash_id(fetches[j].artifact)
        /\ fetches[i].path = fetches[j].path

\* C10 as amended: two artifacts with the same method and url have the same
\* hash_id whatever their verification and file_name, and the same cache
\* path exactly when their file_name is the same too.
C10_SameHashId ==
    \A i, j \in FetchIds :
      (Started(i) /\ Started(j) /\ SameSource(fetches[i].artifact, fetches[j].artifact)) =>
        /\ hash_id(fetches[i].artifact) = hash_id(fetches[j].artifact)
        /\ fetches[i].path.hash = fetches[j].path.hash
        /\ (fetches[i].path = fetches[j].path) <=>
             (file_name(fetches[i].artifact) = file_name(fetches[j].artifact))

\* Two fetches of one url and file name with different verification: one path.
C10_Witness ==
    /\ Started(1)
    /\ Started(2)
    /\ SameSource(fetches[1].artifact, fetches[2].artifact)
    /\ fetches[1].artifact.sha256 # fetches[2].artifact.sha256
    /\ fetches[1].artifact.file_name = fetches[2].artifact.file_name
    /\ fetches[1].path = fetches[2].path

\* The call found its cache path empty, streamed the whole body and returned
\* Ok(FetchedArtifact { artifact, path }).
Downloaded(id) ==
    /\ Done(id)
    /\ ~fetches[id].cached.exists
    /\ fetches[id].complete
    /\ fetches[id].result = Ok

\* C33: when fetch downloads an artifact and returns success, the bytes
\* stored at the returned cache path are exactly the bytes that were fed to
\* the digest pool, in the same order, so a later verification of that file
\* against the same verification succeeds too.
C33_StoredIsDigested ==
    \A id \in FetchIds :
      Downloaded(id) =>
        /\ cache[fetches[id].path].exists
        /\ cache[fetches[id].path].data = fetches[id].streamed
        /\ verify_file(cache[fetches[id].path], fetches[id].artifact.sha256) = <<>>

\* The call created the file and returned an error of the response or of the
\* write before the body was complete.
FailedDownload(id) ==
    /\ Done(id)
    /\ fetches[id].wrote
    /\ ~fetches[id].complete
    /\ fetches[id].result \in {Err("http"), Err("io")}

\* C34: a fetch that fails while downloading (an HTTP or write error before
\* the body is complete) leaves no file at the artifact's cache path, so a
\* later fetch of an artifact without verification never returns a partly
\* downloaded file as a cache hit.
C34_FailedDownloadLeavesNoFile ==
    /\ \A id \in FetchIds :
         (FailedDownload(id) /\ \A later \in FetchIds : later > id => fetches[later].pc = "idle")
           => ~cache[fetches[id].path].exists
    /\ \A i, j \in FetchIds :
         (/\ i < j
          /\ FailedDownload(i)
          /\ Done(j)
          /\ fetches[j].path = fetches[i].path
          /\ ~fetches[j].artifact.sha256.some)
           => ~(fetches[j].result = Ok /\ fetches[j].requests = 0)

(***************************************************************************)
(* Properties of Engine::fetch (checked under SpecEngineFetch).            *)
(***************************************************************************)

\* The call holds an open handle on the file its path leads to.
Writing(id) == fetches[id].pc = "stream" /\ ~fetches[id].orphan

\* The call is about to read the file at its path through verify_file.
Verifying(id) == fetches[id].pc = "verify"

Contend(a, b) == a # b /\ SameSource(fetches[a].artifact, fetches[b].artifact)
                       /\ fetches[a].path = fetches[b].path

NoReadWhileWritten ==
    \A a, b \in FetchIds : Contend(a, b) => ~(Verifying(a) /\ Writing(b))

ReturnedFileKept ==
    \A a \in FetchIds :
        Done(a) /\ fetches[a].result = Ok => cache[fetches[a].path].exists

ReturnedFileComplete ==
    \A a, b \in FetchIds :
        Contend(a, b) /\ Done(a) /\ fetches[a].result = Ok
        => /\ ~Writing(b)
           /\ cache[fetches[a].path].exists
              => verify_file(cache[fetches[a].path], fetches[a].artifact.sha256) = <<>>

\* C11: two fetches of one source that run together take turns on the cache
\* slot: none verifies the file while the other writes it, none removes the
\* file the other returned, and a returned path leads to a complete file
\* that matches the verification.
C11_Serialized ==
    /\ NoReadWhileWritten
    /\ ReturnedFileKept
    /\ ReturnedFileComplete

Failed(id) == fetches[id].result.tag = "Err"

EngineFetchReturned == player.pc = "returned"

\* C12: Engine::fetch returns only when every fetch is complete. If a fetch
\* failed, it returns one error that holds the failure of every failed fetch
\* and state.artifacts is as it was; if none failed, state.artifacts holds
\* one FetchedArtifact for each artifact of the recipe, in the recipe's order.
C12_AggregateError ==
    EngineFetchReturned =>
        /\ \A id \in FetchIds : Done(id)
        /\ IF \E id \in FetchIds : Failed(id)
           THEN /\ result = Err("EngineError")
                /\ state.artifacts = <<>>
                /\ Len(errors) = Cardinality({id \in FetchIds : Failed(id)})
                /\ \A id \in FetchIds :
                      Failed(id) => \E i \in DOMAIN errors :
                                      /\ errors[i].artifact = id
                                      /\ errors[i].result = fetches[id].result
           ELSE /\ result = Ok
                /\ errors = <<>>
                /\ Len(state.artifacts) = recipe.artifacts
                /\ \A id \in FetchIds :
                      /\ state.artifacts[id].artifact = id
                      /\ state.artifacts[id].path = create_artifact_path(fetches[id].artifact)

\* Both fetches failed and Engine::fetch returned both failures.
C12_Witness ==
    /\ EngineFetchReturned
    /\ \A id \in FetchIds : Failed(id)
    /\ Len(errors) = 2

(***************************************************************************)
(* Properties of Engine::extract and Extractor::extract (SpecExtract).     *)
(***************************************************************************)

\* The extractions begun and ended, without what they unpacked.
IsCall(e) == e.ev # "unpack"
Calls == SelectSeq(extracted, IsCall)

ExtractInto == [dir |-> "source_path", name |-> recipe.name]

\* C13: Engine::extract extracts state.artifacts one at a time and in order,
\* each into {source_path}/{recipe.name}: the extraction of an artifact begins
\* only after the one before it has ended with success, and nothing is
\* begun after the first failure, which is what Engine::extract returns.
C13_Sequential ==
    /\ \A p \in DOMAIN Calls :
          IF p % 2 = 1
          THEN /\ Calls[p].ev = "start"
               /\ Calls[p].item = (p + 1) \div 2
               /\ Calls[p].item \in DOMAIN state.artifacts
               /\ Calls[p].into = ExtractInto
          ELSE /\ Calls[p].ev = "end"
               /\ Calls[p].item = p \div 2
               /\ p < Len(Calls) => Calls[p].ok
    /\ \A q \in DOMAIN extracted :
          extracted[q].ev = "unpack"
          => /\ q > 1 /\ q < Len(extracted)
             /\ extracted[q - 1] = [extracted[q] EXCEPT !.ev = "start", !.arch = "none", !.compr = "none"]
             /\ extracted[q + 1].ev = "end"
             /\ extracted[q].into = ExtractInto
    /\ extractor.pc = "returned"
       => /\ extractor.result = Ok
          /\ Len(Calls) = 2 * Len(state.artifacts)
          /\ \A p \in DOMAIN Calls : Calls[p].ok
    /\ (Calls # <<>> /\ ~Calls[Len(Calls)].ok)
       => extractor.pc = "failed" /\ extractor.result.tag = "Err"

\* The first artifact was extracted and the second one failed, with a third
\* one, if there is one, never begun.
C13_Witness ==
    /\ extractor.pc = "failed"
    /\ Len(state.artifacts) >= 2
    /\ Len(Calls) = 4
    /\ Calls[2].ok /\ ~Calls[4].ok

\* The suffix table of the format guess, in its order.
SuffixTable ==
    <<<<".tar.gz", "Tar", "Gzip">>, <<".tar.xz", "Tar", "Xz">>, <<".tar.bz", "Tar", "Bz">>,
      <<".tar", "Tar", "None">>, <<".zip", "Zip", "None">>>>

EndsIn(name, suffix) ==
    \E k \in 0..Len(name) : SubSeq(name, k + 1, Len(name)) = suffix

Matching(name) == {i \in DOMAIN SuffixTable : EndsIn(name, SuffixTable[i][1])}

FirstMatching(name) == CHOOSE i \in Matching(name) : \A j \in Matching(name) : i <= j

ItemName(i) == state.artifacts[i].artifact.file_name

\* C14: an archive is unpacked as the first entry of the suffix table whose
\* suffix ends the artifact's file name says; the extraction of a file name
\* that ends in none of the suffixes fails at the guess with "couldn't guess
\* archive type", and nothing of it is unpacked.
C14_GuessTable ==
    /\ [](\A q \in DOMAIN extracted :
            LET e == extracted[q] IN
            /\ e.ev = "unpack"
               => /\ Matching(ItemName(e.item)) # {}
                  /\ e.arch = SuffixTable[FirstMatching(ItemName(e.item))][2]
                  /\ e.compr = SuffixTable[FirstMatching(ItemName(e.item))][3]
            /\ (e.ev = "end" /\ Matching(ItemName(e.item)) = {}) => ~e.ok)
    /\ [][(extractor.pc = "guess" /\ Matching(ItemName(extractor.iter)) = {})
           => /\ extractor'.pc = "failed"
              /\ extractor'.result = Err("couldn't guess archive type")]_vars

\* An archive named by the third entry was unpacked and the next artifact,
\* whose name goes on after such a suffix, failed at the guess.
C14_Witness ==
    /\ extractor.result = Err("couldn't guess archive type")
    /\ \E q \in DOMAIN extracted :
          /\ extracted[q].ev = "unpack"
          /\ extracted[q].arch = "Tar" /\ extracted[q].compr = "Bz"
    /\ ItemName(extractor.iter) = "x.tar.bz2"

(***************************************************************************)
(* Properties of ElfHeader::parse (checked under SpecElf).                 *)
(***************************************************************************)

\* The input is a whole 64-bit little-endian ELF header of the type.
IsElf64Lsb(input, type) ==
    \E machine \in {0, 3, 62} :
        input = ElfFile(ElfMagic, ELFCLASS64, ELFDATA2LSB, type, machine, ElfHeaderSize(ELFCLASS64))

\* C15: parse of a complete 64-bit little-endian ELF header returns a header
\* that is a shared object when e_type is 3 and an executable when e_type is
\* 2; parse of 24 zero bytes returns None.
C15_Classify ==
    parsed # NotParsed =>
        /\ IsElf64Lsb(reader, ET_DYN) => parsed.some /\ is_shared_object(parsed)
        /\ IsElf64Lsb(reader, ET_EXEC) => parsed.some /\ is_executable(parsed)
        /\ reader = Zeros(24) => ~parsed.some

(***************************************************************************)
(* Properties of CollectElf::run (checked under SpecCollect).              *)
(***************************************************************************)

RegularFiles == {i \in DOMAIN dest : dest[i].kind = "file"}

IsArchive(data) == Len(data) >= 8 /\ SubSeq(data, 1, 8) = ArMagic

\* C16: once CollectElf has run, state.archives holds the regular files
\* under dest whose first 8 bytes are the archive magic and nothing else, and
\* state.elf_headers maps the other regular files that parse as an ELF
\* header to their header and nothing else: what becomes of a file depends
\* on its own bytes only.
C16_Collected ==
    walker.pc = "returned" =>
        /\ Range(state.archives) = {i \in RegularFiles : IsArchive(dest[i].data)}
        /\ state.elf_headers =
             {[path |-> i, header |-> parse(dest[i].data)] :
                 i \in {j \in RegularFiles : ~IsArchive(dest[j].data) /\ parse(dest[j].data).some}}

(***************************************************************************)
(* Properties of StripBinaries::run and Apk::build_package (SpecStrip).    *)
(***************************************************************************)

StripCommands == SelectSeq(commands, LAMBDA c : c.program = "strip")

\* The paths that the strip commands with the flag were run on.
StripArgs(flag) ==
    UNION {StripCommands[i].args : i \in {j \in DOMAIN StripCommands : StripCommands[j].flag = flag}}

StripFlags == {"", "--strip-unneeded", "--strip-debug"}

HeaderOf(p) == (CHOOSE e \in state.elf_headers : e.path = p).header

ElfPaths == {e.path : e \in state.elf_headers}

C19_ExitStatusFatal ==
    /\ strip.pc = "returned" => \A i \in DOMAIN StripCommands : StripCommands[i].status = 0
    /\ apk.pc = "returned"
       => \A i \in DOMAIN commands : commands[i].program = "apk" => commands[i].status = 0

\* The last command execute_action spawned exited with a non-zero status.
CommandFailed ==
    /\ player.exit.ran
    /\ player.exit.status # 0
    /\ player.exit.action \in CommandActions

\* C20: when the command spawned for a Cc, Make, MakeInstall or Configure
\* action exits with a non-zero status, execute_action, play and
\* build_recipe have returned an error, and from then on no action of the
\* playbook or of the build style's default list is run: the iterators do
\* not move and nothing more is played or done to the file system.
C20_NonZeroExitAborts ==
    /\ [](CommandFailed => /\ pc = "failed"
                           /\ player.ret.tag = "Err"
                           /\ result.tag = "Err"
                           /\ failed_step = "execute_action")
    /\ [][CommandFailed => UNCHANGED <<played, player, fs, pc, result>>]_vars

\* The build style's Make exited non-zero in the default body, after the
\* playbook had run an action and with an action left after its Default.
C20_Witness ==
    /\ CommandFailed
    /\ state.stage = "Build"
    /\ player.pc = "default"
    /\ player.exit.action = "Make"
    /\ \E e \in Range(played) : e.ev = "action"
    /\ player.pb_iter <= Len(player.pb)
    /\ player.pb[player.pb_iter] \in CommandActions

BuildStages == {"Configure", "Build", "Install"}

\* The list the build-style table is said to give for a style and a stage.
StyleList(style, stage) ==
    IF style = "Noop" THEN <<>>
    ELSE CASE stage = "Configure" -> <<"Configure">>
           [] stage = "Build" -> <<"Make">>
           [] stage = "Install" -> <<"MakeInstall">>

\* The actions among the played events of the given kinds, in order.
ActionsOf(kinds) ==
    LET run == SelectSeq(played, LAMBDA e : e.ev \in kinds)
    IN [i \in 1..Len(run) |-> run[i].action]

DefaultEnded == \E e \in Range(played) : e.ev = "default_end"

\* C21: in Configure, Build and Install the default body executes the list
\* the build-style table gives for (style, stage), in order: what it has
\* executed is always a prefix of that list and is the whole list once the
\* default body has returned Ok; an Install playbook [cc, .default] with
\* style Configure that has been played has run cc and then MakeInstall.
C21_StyleTable ==
    /\ state.stage \in BuildStages =>
         /\ IsPrefix(ActionsOf({"style_action"}), StyleList(recipe.style, state.stage))
         /\ DefaultEnded => ActionsOf({"style_action"}) = StyleList(recipe.style, state.stage)
    /\ ( /\ state.stage = "Install"
         /\ recipe.style = "Configure"
         /\ player.pb = <<"Cc", "Default">>
         /\ player.pc = "returned" )
       => ActionsOf({"action", "style_action"}) = <<"Cc", "MakeInstall">>

\* play returned on the Install playbook [cc, .default] with style Configure.
C21_Witness ==
    /\ state.stage = "Install"
    /\ recipe.style = "Configure"
    /\ playbook.present
    /\ player.pb = <<"Cc", "Default">>
    /\ player.pc = "returned"
    /\ DefaultEnded

(***************************************************************************)
(* Properties of PinTimestamps (checked under SpecPin).                    *)
(***************************************************************************)

\* The entries below the dest directories: every path but the directories
\* themselves.
Below == {p \in DOMAIN tree : Len(p) > 1}

PinReturnedOk == pin.pc = "returned" /\ pin.result = Ok

\* Every entry has the given time as its access and modification time.
PinnedTo(time) == \A p \in Below : tree[p].atime = time /\ tree[p].mtime = time

\* build_time cut to whole microseconds.
Micros(time) == Time(time.secs, time.nanos - (time.nanos % 1000))

SplitReturnedOk == split.pc = "returned" /\ split.result = Ok

\* The entries the Install stage left, by the path they had there.
Origins == {tree[p].origin : p \in DOMAIN tree} \ {<<>>}

\* Where the entry that was at the given path is now.
NowAt(origin) == CHOOSE p \in DOMAIN tree : tree[p].origin = origin

\* The path relative to the dest directory it is under.
Relative(p) == SubSeq(p, 2, Len(p))

\* A claim glob of the side matches the relative path.
SideMatches(i, rel) == \E c \in Range(recipe.claims[i]) : is_match(c, rel)

\* A claim glob of the side matches the path or a directory above it.
SideClaims(i, rel) == \E a \in Ancestors(rel) : SideMatches(i, a)

C38_SideDestExists ==
    (split.pc = "returned" /\ split.result = Ok) =>
        \A i \in 1..recipe.sides : can_read_dir(tree, dest_path_for_side(i))

(***************************************************************************)
(* Properties of the Package stage (checked under Spec).                   *)
(***************************************************************************)

\* The contexts the Package stage is said to go through.
PackageOrder(sides) ==
    <<[kind |-> "Recipe", side |-> 0]>> \o [i \in 1..sides |-> [kind |-> "Side", side |-> i]]

PackagedContexts == [i \in 1..Len(packaged) |-> packaged[i].context]

PackageBodyEnded == \E i \in 1..Len(log) : log[i] = BodyEnd("Package")

\* C24: the packager's invocations are, in order, the recipe context and
\* then the sides in the recipe's side order, each once: at any time a
\* prefix of that list and the whole list once the body of the Package stage
\* has returned Ok; only the last invocation can have failed, and once one
\* has failed build_recipe has returned an error and invokes nothing more.
C24_PackageOrder ==
    /\ [](/\ IsPrefix(PackagedContexts, PackageOrder(recipe.sides))
          /\ \A i \in 1..Len(packaged) : ~packaged[i].ok => (i = Len(packaged) /\ pc = "failed")
          /\ PackageBodyEnded => /\ PackagedContexts = PackageOrder(recipe.sides)
                                 /\ \A i \in 1..Len(packaged) : packaged[i].ok
          /\ state.stage # "Package" => packaged = <<>>)
    /\ [][(\E i \in 1..Len(packaged) : ~packaged[i].ok) => packaged' = packaged]_vars

\* The invocation for the first of two sides failed after that for the
\* recipe had returned Ok.
C24_Witness ==
    /\ recipe.sides = 2
    /\ Len(packaged) = 2
    /\ packaged[1].ok
    /\ ~packaged[2].ok
    /\ packaged[2].context.side = 1

\* C31: during build_recipe the fields of BuildState change only as follows:
\* build_time and recipe never change; stage is set only by the driver as a
\* stage begins, to that stage, and is the stage whose hooks or body are
\* running; artifacts is written only by the default body of Fetch;
\* elf_headers and archives (collected) only by the CollectElf hook.
C31_FrameEffects ==
    /\ [][recipe' = recipe /\ state'.build_time = state.build_time]_vars
    /\ [][state'.stage # state.stage =>
            (pc = "loop" /\ pc' = "before" /\ state'.stage = stages[stage_iter])]_vars
    /\ [](pc \in {"before", "body", "after"} => state.stage = stages[stage_iter])
    /\ [][state'.artifacts # state.artifacts =>
            (pc = "body" /\ state.stage = "Fetch" /\ player.pc = "default")]_vars
    /\ [][state'.collected # state.collected =>
            (/\ pc = "after"
             /\ state.stage = "Install"
             /\ hook_iter <= Len(SORTED_HOOKS)
             /\ SORTED_HOOKS[hook_iter] = CollectElf)]_vars

\* The Package body runs with the artifacts of Fetch and the headers of
\* CollectElf in BuildState.
C31_Witness ==
    /\ pc = "body"
    /\ state.stage = "Package"
    /\ Len(state.artifacts) > 0
    /\ state.collected
    /\ state.build_time = Now

\* Engine::extract is about to hand an artifact to the extractor.
Extracting ==
    /\ pc = "body"
    /\ state.stage = "Extract"
    /\ player.pc = "default"
    /\ Len(extract_items(state, recipe)) > 0

\* Engine::fetch has returned Ok with every artifact of the recipe fetched.
AllFetched ==
    /\ "cache_files" \in fs
    /\ state.artifacts = recipe_artifacts(state, recipe)
    /\ \E i \in DOMAIN log : log[i] = BodyEnd("Fetch")

\* C32: in build_recipe no artifact is extracted before the fetch of every
\* artifact of the recipe has completed, and if any fetch failed no artifact
\* is extracted at all.
C32_FetchBeforeExtract ==
    /\ Extracting => AllFetched
    /\ "source_tree" \in fs => AllFetched
    /\ failed_step = "fetch" => (pc = "failed" /\ "source_tree" \notin fs /\ ~Extracting)

\* Two artifacts were fetched and then extracted.
C32_Witness ==
    /\ "source_tree" \in fs
    /\ Len(state.artifacts) > 1
    /\ AllFetched

\* C36: a prepare playbook of a recipe is never executed: the body of the
\* Prepare stage calls prepare_engine only, play is not entered and no
\* action runs; the playbooks of Fetch, Extract, Configure, Build and
\* Install are run by the Player, which has run every action of them when
\* the body of the stage has returned.
C36_PrepareNotPlayed ==
    /\ state.stage = "Prepare" =>
         /\ player.pc = "idle"
         /\ played = <<>>
         /\ "action_effects" \notin fs
         /\ failed_step \in {"none", "prepare_engine"}
    /\ (pc = "after" /\ state.stage \in PlayStages) =>
         /\ player.pc = "done"
         /\ player.pb = lookup_playbook(playbook)
         /\ Len(SelectSeq(played, IsPlaybookAction))
              = Len(player.pb) - CountDefault(player.pb)

\* The Prepare stage of a recipe with a prepare playbook of three actions
\* has returned and its After hooks are run.
C36_Witness ==
    /\ state.stage = "Prepare"
    /\ pc = "after"
    /\ playbook.present
    /\ Len(playbook.actions) > 2
    /\ "cache_dir" \in fs

(***************************************************************************)
(* Properties of the parsers, of the traversal and of main (checked under  *)
(* SpecParse).                                                             *)
(***************************************************************************)

\* The nodes of the given name among nodes, in the order of the document.
NodesNamed(nodes, name) == SelectSeq(nodes, LAMBDA n : n.name = name)

\* The parser has returned the recipes of the document, one for each
\* recipe node, and they have not been traversed yet.
RecipesParsed ==
    /\ parser.pc \in {"parsed", "parse_document"}
    /\ Len(parser.recipes) = Len(NodesNamed(document, "recipe"))

IsStringArg(entry) == entry.name = "" /\ entry.value.type = "string"

IsExtends(entry) == entry.name = "extends" /\ entry.value.type = "bool"

\* A depends node as the format has it: the extends property, if any, comes
\* first and the rest are strings.
WellFormedList(node) ==
    \A i \in DOMAIN node.entries :
        \/ IsStringArg(node.entries[i])
        \/ i = 1 /\ IsExtends(node.entries[i])

\* The strings listed on a node, in order.
Listed(node) ==
    LET args == SelectSeq(node.entries, IsStringArg)
    IN [i \in DOMAIN args |-> args[i].value.s]

\* The value of extends on a node: true when it is not given.
ExtendsOf(node) ==
    IF node.entries # <<>> /\ IsExtends(node.entries[1]) THEN node.entries[1].value.b ELSE TRUE

\* The depends a side with the one depends node d has, given its parent's.
SideDepends(parent_, d) == IF ExtendsOf(d) THEN parent_.depends \o Listed(d) ELSE Listed(d)

\* C25: a side without a description node has the description of its
\* recipe; a side with one depends node has the depends of its recipe
\* followed by the strings of the node when extends is true or not given,
\* and only the strings of the node when extends is false.
C25_SideInherits ==
    RecipesParsed =>
        \A i \in DOMAIN parser.recipes :
            LET nodes == NodesNamed(NodesNamed(document, "recipe")[i].children, "side")
                parent_ == parser.recipes[i]
            IN /\ Len(parent_.sides) = Len(nodes)
               /\ \A j \in DOMAIN nodes :
                    LET depends == NodesNamed(nodes[j].children, "depends")
                    IN /\ NodesNamed(nodes[j].children, "description") = <<>>
                            => parent_.sides[j].description = parent_.description
                       /\ Len(depends) = 1 /\ WellFormedList(depends[1])
                            => parent_.sides[j].depends = SideDepends(parent_, depends[1])

\* A recipe with a description and depends was parsed, with a side that
\* has no description node and extends the depends, and a side that
\* replaces them.
C25_Witness ==
    /\ RecipesParsed
    /\ \E i \in DOMAIN parser.recipes :
         /\ parser.recipes[i].description # ""
         /\ parser.recipes[i].depends # <<>>
         /\ \E j, k \in DOMAIN parser.recipes[i].sides :
              /\ parser.recipes[i].sides[j].description = parser.recipes[i].description
              /\ Len(parser.recipes[i].sides[j].depends) > Len(parser.recipes[i].depends)
              /\ parser.recipes[i].sides[k].depends = <<"ar">>

RecipeNodes == NodesNamed(document, "recipe")

HasVersion(node) == NodesNamed(node.children, "version") # <<>>

\* C26: a recipe node without a version child yields no Recipe: the parsers
\* return the recipes of the nodes with a version only, and what is handed
\* to build_recipe comes from a recipe node with a version.
C26_NoVersionNoRecipe ==
    /\ parser.pc \in {"parsed", "parse_document"} /\ parser.ok
         => Len(parser.recipes) = Len(SelectSeq(RecipeNodes, HasVersion))
    /\ parser.handed # <<>> => \E i \in DOMAIN RecipeNodes : HasVersion(RecipeNodes[i])

\* The node has one entry, a string without a name.
HasOneString(node) == Len(node.entries) = 1 /\ IsStringArg(node.entries[1])

\* The document has one of these problems: a recipe without a name string
\* or without a version, a version node without one string, a side
\* without a name string.
HasProblem ==
    \E i \in DOMAIN RecipeNodes :
        \/ ~HasOneString(RecipeNodes[i])
        \/ ~HasVersion(RecipeNodes[i])
        \/ \E j \in DOMAIN RecipeNodes[i].children :
             /\ RecipeNodes[i].children[j].name \in {"version", "side"}
             /\ ~HasOneString(RecipeNodes[i].children[j])

\* C27: a problem of the document is in the error list that is returned
\* with the partial result, and strict parsing fails on it.
C27_ProblemsCollected ==
    HasProblem =>
        /\ parser.pc = "parsed" => parser.ok /\ parser.errors # <<>>
        /\ parser.pc = "parse_document_strict" => ~parser.ok

\* The node of a stage in a recipe node: the last of that name.
StageNode(node, name) ==
    LET named == NodesNamed(node.children, name) IN named[Len(named)]

\* The actions of the action nodes of a stage node, in document order.
ActionsInOrder(node) ==
    LET nodes == SelectSeq(node.children, LAMBDA n : Action_parse(n).some)
    IN [i \in DOMAIN nodes |-> Action_parse(nodes[i]).data]

\* C28: each of the stage nodes prepare, fetch, extract, configure, build
\* and install of a recipe node is stored as the playbook of its Stage,
\* with the actions of its action nodes in document order.
C28_StagePlaybooks ==
    RecipesParsed =>
        \A i \in DOMAIN RecipeNodes :
            \A name \in {"prepare", "fetch", "extract", "configure", "build", "install"} :
                NodesNamed(RecipeNodes[i].children, name) # <<>>
                    => parser.recipes[i].playbooks[Stage_from_str(name).v] =
                         [present |-> TRUE,
                          actions |-> ActionsInOrder(StageNode(RecipeNodes[i], name))]

\* The first style node of a recipe node, and its child of a name.
StyleNode(node) == NodesNamed(node.children, "style")[1]

StyleChild(node, name) == NodesNamed(StyleNode(node).children, name)

\* The strings of the nodes rendered as the templates of the recipe.
Rendered(strings, recipe_) ==
    [i \in DOMAIN strings |-> render_template(strings[i], 1, template_vars(recipe_))]

\* C29: the string of the configure-script child of the style node is the
\* configure_script and the strings of its configure-args child are the
\* configure_args, so Configure runs that script, ./configure without
\* such a child, with --prefix=/usr followed by those arguments.
C29_ConfigureVariables ==
    /\ RecipesParsed =>
         \A i \in DOMAIN RecipeNodes :
             NodesNamed(RecipeNodes[i].children, "style") # <<>> =>
                 /\ Len(StyleChild(RecipeNodes[i], "configure-script")) = 1
                      => parser.recipes[i].style.vars.configure_script =
                           SomeOf(Listed(StyleChild(RecipeNodes[i], "configure-script")[1])[1])
                 /\ Len(StyleChild(RecipeNodes[i], "configure-args")) = 1
                      => parser.recipes[i].style.vars.configure_args =
                           SomeOf(Listed(StyleChild(RecipeNodes[i], "configure-args")[1]))
    /\ parser.pc = "configure" =>
         LET script == StyleChild(RecipeNodes[1], "configure-script")
             args == StyleChild(RecipeNodes[1], "configure-args")
         IN parser.command[1] =
              [program |-> IF script = <<>> THEN "./configure"
                           ELSE Rendered(Listed(script[1]), parser.parsed[1])[1],
               args |-> <<"--prefix=/usr">> \o
                          (IF args = <<>> THEN <<>>
                           ELSE Rendered(Listed(args[1]), parser.parsed[1]))]

RECURSIVE Flatten(_)
Flatten(seqs) == IF seqs = <<>> THEN <<>> ELSE seqs[1] \o Flatten(Tail(seqs))

\* The strings of an Option<String> and of an Option<Vec<String>>.
OptionString(opt) == IF opt.some THEN <<opt.v>> ELSE <<>>

OptionStrings(opt) == IF opt.some THEN opt.v ELSE <<>>

\* The strings an action owns: its list, and the output of cc and the
\* target of link.
ActionStrings(action) ==
    CASE action.kind \in {"Cc", "Link"} -> Append(action.args, action.output)
      [] action.kind \in {"Bin", "Man", "Rm", "Dir"} -> action.args
      [] OTHER -> <<>>

\* The strings a recipe owns in the fields that are not skipped.
OwnedStrings(recipe_) ==
    <<recipe_.name, recipe_.version, recipe_.source_dir, recipe_.description>>
      \o OptionString(recipe_.home) \o recipe_.license \o recipe_.maintainers
      \o recipe_.depends \o recipe_.provides
      \o Flatten([i \in DOMAIN recipe_.artifacts |->
                    <<recipe_.artifacts[i].source.url, recipe_.artifacts[i].source.file_name>>])
      \o OptionString(recipe_.style.vars.configure_script)
      \o OptionStrings(recipe_.style.vars.configure_args)
      \o Flatten([i \in DOMAIN recipe_.sides |->
                    <<recipe_.sides[i].name, recipe_.sides[i].description>>
                      \o recipe_.sides[i].depends \o recipe_.sides[i].claims])
      \o Flatten([k \in DOMAIN DrainOrder |->
                    Flatten([i \in DOMAIN recipe_.playbooks[DrainOrder[k]].actions |->
                               ActionStrings(recipe_.playbooks[DrainOrder[k]].actions[i])])])

\* How many times s is in q.
Times(s, q) == Cardinality({i \in DOMAIN q : q[i] = s})

ArtifactNodes ==
    LET named == NodesNamed(RecipeNodes[1].children, "artifacts")
    IN IF Len(named) = 1 THEN named[1].children ELSE <<>>

\* The artifact node gives an Artifact: a fetch with a url.
YieldsArtifact(node) ==
    /\ node.name = "fetch"
    /\ \E i \in DOMAIN node.children :
         node.children[i].name = "url" /\ HasOneString(node.children[i])

\* C35: an artifact whose node has a sha256 child is not fetched without
\* verification: the Artifact handed to build_recipe, and by it to fetch,
\* carries a sha256 for the digest pool, also when the hex string of the
\* child is malformed or of a wrong length.
C35_Sha256Enforced ==
    (parser.handed # <<>> /\ Len(RecipeNodes) = 1) =>
        LET kept == SelectSeq(ArtifactNodes, YieldsArtifact) IN
        /\ Len(parser.handed[1].artifacts) = Len(kept)
        /\ \A k \in DOMAIN kept :
             NodesNamed(kept[k].children, "sha256") # <<>>
               => parser.handed[1].artifacts[k].verification.sha256.some

\* The nodes of the document's only recipe node that are handed to the
\* playbook parser.
PlaybookNodes == SelectSeq(RecipeNodes[1].children, LAMBDA n : n.name \in StageNodeNames)

RECURSIVE Dropped(_, _)
\* The number of action nodes of the stage nodes from the i-th on that the
\* playbook parser gives no Action for.
Dropped(nodes, i) ==
    IF i > Len(nodes) THEN 0
    ELSE Len(nodes[i].children) - Len(ActionPlaybook_parse(nodes[i]).data.actions)
         + Dropped(nodes, i + 1)

\* C37: whenever the playbook parser drops an action node (an unknown
\* action, a link with fewer than 2 arguments, a cc node without output or
\* without inputs), it reports at least one parse error for that node: the
\* parser of the node returns an error with its None, and the errors
\* returned with the document are as many as the dropped nodes at least.
C37_DroppedReported ==
    (parser.pc = "parsed" /\ Len(RecipeNodes) = 1) =>
        /\ \A i \in DOMAIN PlaybookNodes : \A j \in DOMAIN PlaybookNodes[i].children :
             ~Action_parse(PlaybookNodes[i].children[j]).some
               => Action_parse(PlaybookNodes[i].children[j]).errors # <<>>
        /\ Len(parser.errors) >= Dropped(PlaybookNodes, 1)

(***************************************************************************)
(* Properties of FileWalker (checked under SpecWalk).                      *)
(***************************************************************************)

\* The entries below the roots that the walker is to yield.
ToYield ==
    {p \in DOMAIN tree :
       /\ \E i \in DOMAIN files.roots : IsUnder(files.roots[i], p)
       /\ files.omit_directories => tree[p].kind # "dir"}

\* No entry has been yielded twice, no root has been yielded, and a
\* directory has been yielded before every entry below it.
YieldedOnce ==
    /\ \A i, j \in DOMAIN files.yielded :
         /\ files.yielded[i] = files.yielded[j] => i = j
         /\ IsUnder(files.yielded[i], files.yielded[j]) => i < j
    /\ \A i \in DOMAIN files.roots : files.roots[i] \notin Range(files.yielded)

\* C39: on a finite tree repeated calls of next come to an end, with None
\* unless a call returned an error; when None is returned, the entries
\* yielded are the entries below the pushed roots that are no directory
\* (symlinks among them, none followed) and, when directories are included,
\* the directories below the roots as well; at any time no entry and no
\* root has been yielded twice or at all, and a directory has been yielded
\* before every entry below it.
C39_WalkTerminates ==
    /\ <>(files.pc \in {"done", "failed"})
    /\ [](files.pc = "failed" => files.result = Err("io"))
    /\ [](files.pc = "done" =>
            /\ files.result = Ok
            /\ Range(files.yielded) = ToYield)
    /\ [](YieldedOnce /\ Range(files.yielded) \subseteq ToYield)

\* A walk over both roots with directories has returned None after a file,
\* a directory with a file in it and a symlink to the directory.
C39_Witness ==
    /\ files.pc = "done"
    /\ ~files.omit_directories
    /\ Len(files.roots) = 2
    /\ \E i \in DOMAIN files.yielded : tree[files.yielded[i]].kind = "symlink"
    /\ \E i, j \in DOMAIN files.yielded : IsUnder(files.yielded[i], files.yielded[j])
    /\ Len(files.yielded) > 4

====
